---- MODULE Spec2Model ----
(***************************************************************************)
(* Coordination engine of routa: the Postgres task store (PgTaskStore),    *)
(* the EventBus and the HTTP session store, as state machines.             *)
(***************************************************************************)
EXTENDS Integers, Sequences, FiniteSets, TLC

VARIABLES
    tasks,        \* PgTaskStore: the rows of table `tasks`, a function id -> row
    ret,          \* the value returned by the last store call
    highWater,    \* history: the highest version ever stored under each task id
    agentPc,      \* reporting agents: "idle" | "read" | "done"
    agentView,    \* reporting agents: the (task id, version) each one read
    agentRet,     \* reporting agents: what its atomicUpdate returned
    handlers,     \* EventBus.handlers: Map key -> handler, in insertion order
    subscriptions,\* EventBus.subscriptions: Map id -> subscription, in insertion order
    pendingEvents,\* EventBus.pendingEvents: agent id -> queued events
    waitGroups,   \* EventBus.waitGroups: Map id -> wait group, in insertion order
    clock,        \* number of emit calls made so far (the events' timestamps)
    shots,        \* history: timestamps of the events queued by the one-shot
                  \* subscription last registered under each id
    fired,        \* history: the completedAgentIds handed to onComplete, per
                  \* invocation, by the group last created under each id
    buffered,     \* history: the pushes of the last logged emit call, in
                  \* order, as <<event timestamp, subscription id>>
    called,       \* history: the handler calls of the last logged emit call,
                  \* as <<event timestamp, handler key>>, and whether it threw
    queued,       \* history: per agent, the events recorded emits queued for it
    drained,      \* history: per agent, the lists its recorded drains returned
    pre,          \* preSubscribe: the closure of one call (its params, its
                  \* promise) and whether its dispose function has been called
    seen,         \* history: the events emitted since preSubscribe that match
                  \* its filter, in the order of the emit calls, and a mark
                  \* where dispose was called
    sessions,     \* HttpSessionStore.sessions: session id -> record
    sseControllers,        \* HttpSessionStore.sseControllers: session id -> controller
    pendingNotifications,  \* HttpSessionStore.pendingNotifications: session id -> list
    closed,       \* the stream controllers whose stream has been closed
    wire,         \* history: every controller.enqueue call, in order, with
                  \* its controller, its payload, whether it succeeded and
                  \* the store method that was called
    pushed,       \* history: per session, the notifications pushNotification
                  \* was called with, in call order
    streams,      \* GET /api/acp: the SSE streams opened so far, in order, each
                  \* with its controller and the sessionId of its request
    env,          \* process.env: the variables the system factory reads
    system,       \* globalThis.__routa_system__: <<>> or the RoutaSystem
    database,     \* globalThis.__routa_db__: <<>> or the Postgres connection
    answer        \* what the last getRoutaSystem call returned or threw

storeVars == <<tasks, ret, highWater>>
agentVars == <<agentPc, agentView, agentRet>>
busVars == <<handlers, subscriptions, pendingEvents, waitGroups, clock, shots, fired,
            buffered, called, queued, drained, pre, seen>>

pipeVars == <<sessions, sseControllers, pendingNotifications, closed, wire, pushed,
             streams>>

bootVars == <<env, system, database, answer>>

vars == <<storeVars, agentVars, busVars, pipeVars, bootVars>>

\* ------------------------------------------------------------------ bounds

\* Versions are capped: a write that would store a version above MaxVersion
\* is not taken.
MaxVersion == 3

\* The number of emit calls callers make on the bus with subscriptions.
MaxEmits == 2

\* The number of pushNotification calls made on the session store.
MaxPushes == 2

\* The number of "SSE connected." messages pushConnected gets written.
MaxConnects == 2

\* The number of drainPendingEvents calls each agent makes.
MaxDrains == 2

\* The number of emit calls agents make on the bus with wait groups.
MaxSignals == 4

\* The number of nested onComplete calls the call stack has room for: one
\* more ends in a RangeError (maximum call stack size exceeded).
MaxStack == 3

\* ------------------------------------------------------------- input sets

TaskIds == {"A", "B"}
WorkspaceIds == {"w1", "w2"}
TaskStatus == {"PENDING", "IN_PROGRESS", "COMPLETED", "NEEDS_FIX", "BLOCKED"}

\* The statuses callers write in this model (BLOCKED is handled by the code
\* exactly as IN_PROGRESS and NEEDS_FIX are).
StatusInputs == {"PENDING", "IN_PROGRESS", "COMPLETED", "NEEDS_FIX"}
DepLists == {<<>>, <<"A">>, <<"B">>}

\* `version` of the task object handed to save(): absent (<<>>) or a number.
VersionInputs == {<<>>, <<2>>}

\* The task objects callers hand to save().
TaskInputs ==
    [id : TaskIds, status : StatusInputs, dependencies : DepLists,
     workspaceId : WorkspaceIds, version : VersionInputs]

\* Partial updates handed to atomicUpdate(): the keys present are DOMAIN u.
UpdateInputs ==
    {<<>>} \cup {[f \in {"status"} |-> s] : s \in StatusInputs}

\* The keys of the partial update atomicUpdate() takes.
UpdateKeys ==
    {"status", "completionSummary", "verificationVerdict", "verificationReport",
     "assignedTo"}

\* A value a caller writes to each of them.
UpdateValue(f) ==
    CASE f = "status" -> "COMPLETED"
      [] f = "completionSummary" -> "done"
      [] f = "verificationVerdict" -> "APPROVED"
      [] f = "verificationReport" -> "all checks pass"
      [] f = "assignedTo" -> "agent-2"

\* The partial updates over all five keys: any subset of them present.
PartialUpdateInputs ==
    {[f \in keys |-> UpdateValue(f)] : keys \in SUBSET UpdateKeys}

RetVoid == "void"
RetTrue == "true"
RetFalse == "false"

Range(s) == {s[i] : i \in DOMAIN s}

Max(a, b) == IF a >= b THEN a ELSE b

\* ------------------------------------------------------------ PgTaskStore

\* `x ?? d` on an optional value.
Nullish(opt, d) == IF opt = <<>> THEN d ELSE opt[1]

Exists(store, taskId) == taskId \in DOMAIN store

\* The row INSERT ... VALUES builds from the task object.
InsertRow(task) ==
    [status |-> task.status, dependencies |-> task.dependencies,
     workspaceId |-> task.workspaceId, version |-> Nullish(task.version, 1)]

\* Mutant: the conflict path stores the caller's version, as the insert does.
ConflictRowCallerVersion(row, task) ==
    [status |-> task.status, dependencies |-> task.dependencies,
     workspaceId |-> row.workspaceId, version |-> Nullish(task.version, 1)]

\* Mutant: the conflict path leaves the stored version as it is.
ConflictRowSameVersion(row, task) ==
    [status |-> task.status, dependencies |-> task.dependencies,
     workspaceId |-> row.workspaceId, version |-> row.version]

\* The row ON CONFLICT DO UPDATE SET leaves: workspaceId is not in the SET
\* list, version is the stored version + 1.
ConflictRow(row, task) ==
    [status |-> task.status, dependencies |-> task.dependencies,
     workspaceId |-> row.workspaceId, version |-> row.version + 1]

Put(store, taskId, row) ==
    [i \in DOMAIN store \cup {taskId} |-> IF i = taskId THEN row ELSE store[i]]

SaveStore(store, task) ==
    IF Exists(store, task.id)
    THEN Put(store, task.id, ConflictRow(store[task.id], task))
    ELSE Put(store, task.id, InsertRow(task))

listByWorkspace(store, workspaceId) ==
    {i \in DOMAIN store : store[i].workspaceId = workspaceId}

\* Mutant: a dependency is satisfied as soon as it has a record.
findReadyTasksDepExists(store, workspaceId) ==
    LET allTasks == listByWorkspace(store, workspaceId)
    IN  {i \in allTasks :
            /\ store[i].status = "PENDING"
            /\ \A depId \in Range(store[i].dependencies) : depId \in allTasks}

\* Mutant: a dependency without a record counts as satisfied.
findReadyTasksSkipMissing(store, workspaceId) ==
    LET allTasks == listByWorkspace(store, workspaceId)
    IN  {i \in allTasks :
            /\ store[i].status = "PENDING"
            /\ \A depId \in Range(store[i].dependencies) :
                  depId \in allTasks => store[depId].status = "COMPLETED"}

findReadyTasks(store, workspaceId) ==
    LET allTasks == listByWorkspace(store, workspaceId)
    IN  {i \in allTasks :
            /\ store[i].status = "PENDING"
            /\ \A depId \in Range(store[i].dependencies) :
                  depId \in allTasks /\ store[depId].status = "COMPLETED"}

\* Mutant: updateStatus inserts a row when the id has none.
UpdateStatusStoreUpsert(store, taskId, status) ==
    IF Exists(store, taskId)
    THEN [store EXCEPT ![taskId].status = status,
                       ![taskId].version = store[taskId].version + 1]
    ELSE Put(store, taskId, [status |-> status, dependencies |-> <<>>,
                             workspaceId |-> "w1", version |-> 1])

\* Mutant: updateStatus leaves the version as it is.
UpdateStatusStoreSameVersion(store, taskId, status) ==
    IF Exists(store, taskId)
    THEN [store EXCEPT ![taskId].status = status]
    ELSE store

UpdateStatusStore(store, taskId, status) ==
    IF Exists(store, taskId)
    THEN [store EXCEPT ![taskId].status = status,
                       ![taskId].version = store[taskId].version + 1]
    ELSE store

DeleteStore(store, taskId) ==
    [i \in DOMAIN store \ {taskId} |-> store[i]]

\* Mutant: the WHERE clause tests the id only.
RowCountIdOnly(store, taskId, expectedVersion) ==
    IF Exists(store, taskId) THEN 1 ELSE 0

\* The rows UPDATE ... WHERE id = taskId AND version = expectedVersion matches.
RowCount(store, taskId, expectedVersion) ==
    IF Exists(store, taskId) /\ store[taskId].version = expectedVersion
    THEN 1 ELSE 0

\* Mutant: the SET list drops the caller's updates.
ApplyUpdatesVersionOnly(row, updates) ==
    [row EXCEPT !.version = row.version + 1]

\* new Date() at the time of an update.
Now == "now"

\* SET {...updates, version: version + 1, updatedAt: new Date()} on a row;
\* the columns a row of the model does not carry are not written.
ApplyUpdates(row, updates) ==
    [f \in DOMAIN row |->
        IF f = "version" THEN row.version + 1
        ELSE IF f = "updatedAt" THEN Now
        ELSE IF f \in DOMAIN updates THEN updates[f]
        ELSE row[f]]

\* Mutant: the WHERE clause tests the version only.
AtomicUpdateStoreAnyId(store, taskId, expectedVersion, updates) ==
    [i \in DOMAIN store |->
        IF store[i].version = expectedVersion
        THEN ApplyUpdates(store[i], updates) ELSE store[i]]

AtomicUpdateStore(store, taskId, expectedVersion, updates) ==
    IF RowCount(store, taskId, expectedVersion) > 0
    THEN [store EXCEPT ![taskId] = ApplyUpdates(store[taskId], updates)]
    ELSE store

\* Mutant: the call reports success whenever the statement ran.
AtomicUpdateResultAlways(store, taskId, expectedVersion) == RetTrue

AtomicUpdateResult(store, taskId, expectedVersion) ==
    IF RowCount(store, taskId, expectedVersion) > 0 THEN RetTrue ELSE RetFalse

\* History of the versions stored under each id.
Track(hw, store) ==
    [i \in TaskIds |->
        IF i \in DOMAIN store THEN Max(hw[i], store[i].version) ELSE hw[i]]

WithinBounds(store) == \A i \in DOMAIN store : store[i].version <= MaxVersion

\* ---------------------------------------------------------------- actions

\* One call of the store: the table after it and the value it returns.
StoreCall(newStore, r) ==
    /\ WithinBounds(newStore)
    /\ tasks' = newStore
    /\ ret' = r
    /\ UNCHANGED <<agentVars, busVars, pipeVars, bootVars>>

SaveCall(task) == StoreCall(SaveStore(tasks, task), RetVoid)

UpdateStatusCall(taskId, status) ==
    StoreCall(UpdateStatusStore(tasks, taskId, status), RetVoid)

DeleteCall(taskId) == StoreCall(DeleteStore(tasks, taskId), RetVoid)

AtomicUpdateCall(taskId, expectedVersion, updates) ==
    StoreCall(AtomicUpdateStore(tasks, taskId, expectedVersion, updates),
              AtomicUpdateResult(tasks, taskId, expectedVersion))

Save(task) == SaveCall(task) /\ UNCHANGED highWater

UpdateStatus(taskId, status) ==
    UpdateStatusCall(taskId, status) /\ UNCHANGED highWater

Delete(taskId) == DeleteCall(taskId) /\ UNCHANGED highWater

AtomicUpdate(taskId, expectedVersion, updates) ==
    AtomicUpdateCall(taskId, expectedVersion, updates) /\ UNCHANGED highWater

\* The same calls with the history of stored versions recorded.
Recorded == highWater' = Track(highWater, tasks')

\* ------------------------------------------------------- reporting agents

Agents == {"r1", "r2"}

\* The completion reports agents submit.
ReportInputs == {[f \in {"status"} |-> s] : s \in {"COMPLETED", "NEEDS_FIX"}}

\* An agent reads the task's current version and prepares its report.
AgentRead(a, taskId, updates) ==
    /\ agentPc[a] = "idle"
    /\ Exists(tasks, taskId)
    /\ agentPc' = [agentPc EXCEPT ![a] = "read"]
    /\ agentView' = [agentView EXCEPT
          ![a] = [id |-> taskId, version |-> tasks[taskId].version,
                  updates |-> updates]]
    /\ UNCHANGED <<storeVars, agentRet, busVars, pipeVars, bootVars>>

\* It submits the report with the version it read.
AgentReport(a) ==
    /\ agentPc[a] = "read"
    /\ LET v == agentView[a]
       IN  /\ WithinBounds(AtomicUpdateStore(tasks, v.id, v.version, v.updates))
           /\ tasks' = AtomicUpdateStore(tasks, v.id, v.version, v.updates)
           /\ ret' = AtomicUpdateResult(tasks, v.id, v.version)
           /\ agentRet' = [agentRet EXCEPT ![a] = ret']
    /\ agentPc' = [agentPc EXCEPT ![a] = "done"]
    /\ UNCHANGED <<highWater, agentView, busVars, pipeVars, bootVars>>

\* A rejected agent goes back to re-read the task ("retry with latest state").
AgentRetry(a) ==
    /\ agentPc[a] = "done"
    /\ agentRet[a] = RetFalse
    /\ agentPc' = [agentPc EXCEPT ![a] = "idle"]
    /\ UNCHANGED <<storeVars, agentView, agentRet, busVars, pipeVars, bootVars>>

\* ---------------------------------------------------------------- EventBus

AgentEventType ==
    {"AGENT_CREATED", "AGENT_ACTIVATED", "AGENT_COMPLETED", "AGENT_ERROR",
     "TASK_ASSIGNED", "TASK_COMPLETED", "TASK_FAILED", "TASK_STATUS_CHANGED",
     "MESSAGE_SENT", "REPORT_SUBMITTED", "WORKSPACE_UPDATED"}

BusAgents == {"a", "b", "c"}
HandlerKeys == {"h1"}
SubIds == {"s1", "s2", "s3"}
GroupIds == {"g1", "g2"}

\* The handler functions callers register with on(): one that answers a
\* TASK_COMPLETED event by emitting AGENT_COMPLETED for the same agent.
RelayHandler == [kind |-> "relay", on |-> "TASK_COMPLETED", emit |-> "AGENT_COMPLETED"]
HandlerInputs == {RelayHandler}

\* Handlers that throw on every event, and handlers that just return.
ThrowingHandler == [kind |-> "throws", on |-> "", emit |-> ""]
QuietHandler == [kind |-> "returns", on |-> "", emit |-> ""]
FailingHandlerKeys == {"h1", "h2"}
FailingHandlerInputs == {ThrowingHandler, QuietHandler, RelayHandler}

\* A one-shot or lasting subscription of agent a for AGENT_COMPLETED, and a
\* wait group for b or for a and b, used next to the failing handlers.
BystanderSubscriptionInputs ==
    [id : {"s1"}, agentId : {"a"}, eventTypes : {{"AGENT_COMPLETED"}},
     excludeSelf : {TRUE}, oneShot : BOOLEAN, priority : {<<>>}]
BystanderWaitGroupInputs ==
    [id : {"g1"}, parentAgentId : {"parent"},
     expectedAgentIds : {<<"b">>, <<"a", "b">>}, onComplete : {"returns"}]

\* The subscriptions callers register with subscribe(): s1 is agent a's, for
\* AGENT_COMPLETED, without a priority, excluding a's own events or not; s2
\* is either agent's, for both event types, with priority 10, excluding its
\* owner's events; each is one-shot or not.
SubscriptionInputs ==
    [id : {"s1"}, agentId : {"a"}, eventTypes : {{"AGENT_COMPLETED"}},
     excludeSelf : BOOLEAN, oneShot : BOOLEAN, priority : {<<>>}]
    \cup
    [id : {"s2"}, agentId : {"a", "b"},
     eventTypes : {{"AGENT_COMPLETED", "TASK_COMPLETED"}},
     excludeSelf : {TRUE}, oneShot : BOOLEAN, priority : {<<10>>}]

\* Subscriptions of agent a with priorities 10, 5, 0 and none: s1 and s2 are
\* for AGENT_COMPLETED, s3 for either event type.
PrioritySubscriptionInputs ==
    [id : {"s1"}, agentId : {"a"}, eventTypes : {{"AGENT_COMPLETED"}},
     excludeSelf : {FALSE}, oneShot : {FALSE}, priority : {<<>>, <<10>>}]
    \cup
    [id : {"s2"}, agentId : {"a"}, eventTypes : {{"AGENT_COMPLETED"}},
     excludeSelf : {FALSE}, oneShot : {FALSE}, priority : {<<0>>, <<5>>, <<10>>}]
    \cup
    [id : {"s3"}, agentId : {"a"},
     eventTypes : {{"AGENT_COMPLETED"}, {"TASK_COMPLETED"}},
     excludeSelf : {FALSE}, oneShot : {FALSE},
     priority : {<<>>, <<0>>, <<5>>, <<10>>}]

\* Lasting subscriptions of a (to every AGENT_COMPLETED, or to those of
\* others) and of b (to both event types of others).
DrainSubscriptionInputs ==
    [id : {"s1"}, agentId : {"a"}, eventTypes : {{"AGENT_COMPLETED"}},
     excludeSelf : BOOLEAN, oneShot : {FALSE}, priority : {<<>>}]
    \cup
    [id : {"s2"}, agentId : {"b"},
     eventTypes : {{"AGENT_COMPLETED", "TASK_COMPLETED"}},
     excludeSelf : {TRUE}, oneShot : {FALSE}, priority : {<<>>}]

\* The params of preSubscribe: agent a waits for AGENT_COMPLETED or for both
\* event types, with excludeSelf omitted, true or false.
PreSubscribeInputs ==
    [id : {"s3"}, agentId : {"a"},
     eventTypes : {{"AGENT_COMPLETED"}, {"AGENT_COMPLETED", "TASK_COMPLETED"}},
     excludeSelf : {<<>>, <<TRUE>>, <<FALSE>>}, priority : {<<>>}]

\* Subscriptions another caller registers under the id a preSubscribe call
\* used.
ReuseSubscriptionInputs ==
    [id : {"s3"}, agentId : {"a", "b"}, eventTypes : {{"AGENT_COMPLETED"}},
     excludeSelf : {TRUE}, oneShot : BOOLEAN, priority : {<<>>}]

\* The onComplete callbacks of wait groups: one that returns, one that throws.
CallbackInputs == {"returns", "throws"}

\* Lists of expected agents in which an id is repeated, next to one without.
RepeatedExpectedInputs == {<<"a", "a">>, <<"a", "b", "a">>, <<"b", "c">>}

RepeatedWaitGroupInputs ==
    [id : GroupIds, parentAgentId : {"parent"},
     expectedAgentIds : RepeatedExpectedInputs, onComplete : CallbackInputs]

\* Wait groups whose onComplete callback emits a completion itself, next to
\* groups whose callback only returns.
EmittingWaitGroupInputs ==
    [id : GroupIds, parentAgentId : {"parent"},
     expectedAgentIds : {<<"a", "b">>, <<"c">>}, onComplete : {"returns", "emits"}]

ExpectedInputs == {<<"a", "b", "c">>, <<"a", "b">>, <<"c">>}

WaitGroupInputs ==
    [id : GroupIds, parentAgentId : {"parent"},
     expectedAgentIds : ExpectedInputs, onComplete : CallbackInputs]

Keys(entries) == {entries[i].key : i \in DOMAIN entries}
Ids(entries) == {entries[i].id : i \in DOMAIN entries}

\* Map.set on a Map kept in insertion order: an existing key keeps its place.
MapSet(entries, isKey(_), entry) ==
    IF \E i \in DOMAIN entries : isKey(entries[i])
    THEN [i \in DOMAIN entries |-> IF isKey(entries[i]) THEN entry ELSE entries[i]]
    ELSE Append(entries, entry)

\* The bus as one value: its four maps, the history variables, and the next
\* insertion stamp (iteration over a Map follows the stamps, so that entries
\* deleted or added while a loop runs are skipped or visited as in the code).
BusState ==
    [handlers |-> handlers, subscriptions |-> subscriptions,
     pendingEvents |-> pendingEvents, waitGroups |-> waitGroups,
     clock |-> clock, shots |-> shots, fired |-> fired, log |-> <<>>,
     calls |-> <<>>, thrown |-> FALSE, returned |-> <<>>, pre |-> pre,
     depth |-> 0,
     stamp |-> Len(handlers) + Len(waitGroups) + 1]

StampOf(entries, isKey(_), fresh) ==
    IF \E i \in DOMAIN entries : isKey(entries[i])
    THEN (CHOOSE e \in Range(entries) : isKey(e)).st
    ELSE fresh

on(B, key, fn) ==
    LET isKey(h) == h.key = key
        st == StampOf(B.handlers, isKey, B.stamp)
    IN  [B EXCEPT !.handlers = MapSet(@, isKey, [key |-> key, fn |-> fn, st |-> st]),
                  !.stamp = @ + 1]

off(B, key) ==
    [B EXCEPT !.handlers = SelectSeq(@, LAMBDA h : h.key # key)]

subscribe(B, subscription) ==
    LET isKey(x) == x.id = subscription.id
    IN  [B EXCEPT !.subscriptions = MapSet(@, isKey, subscription),
                  !.shots[subscription.id] = <<>>]

unsubscribe(B, subscriptionId) ==
    [B EXCEPT !.subscriptions = SelectSeq(@, LAMBDA x : x.id # subscriptionId)]

\* Mutant: the agent's queue is not deleted.
KeepQueue(queues, agentId) == queues

\* this.pendingEvents.delete(agentId); a missing entry reads as [].
DeleteQueue(queues, agentId) == [queues EXCEPT ![agentId] = <<>>]

\* drainPendingEvents(agentId); B.returned is the array it returns.
drainPendingEvents(B, agentId) ==
    [B EXCEPT !.returned = B.pendingEvents[agentId],
              !.pendingEvents = DeleteQueue(@, agentId)]

createWaitGroup(B, params) ==
    LET isKey(g) == g.id = params.id
        st == StampOf(B.waitGroups, isKey, B.stamp)
    IN  [B EXCEPT
           !.waitGroups = MapSet(@, isKey,
               [id |-> params.id, parentAgentId |-> params.parentAgentId,
                expectedAgentIds |-> params.expectedAgentIds,
                completedAgentIds |-> {}, onComplete |-> params.onComplete,
                st |-> st]),
           !.fired[params.id] = <<>>,
           !.stamp = @ + 1]

\* Mutant: the agent id is pushed whether or not it is already expected.
addToWaitGroupAlways(B, groupId, agentId) ==
    [B EXCEPT !.waitGroups =
        [i \in DOMAIN @ |->
            IF @[i].id = groupId
            THEN [@[i] EXCEPT !.expectedAgentIds = Append(@, agentId)]
            ELSE @[i]]]

addToWaitGroup(B, groupId, agentId) ==
    [B EXCEPT !.waitGroups =
        [i \in DOMAIN @ |->
            IF @[i].id = groupId /\ agentId \notin Range(@[i].expectedAgentIds)
            THEN [@[i] EXCEPT !.expectedAgentIds = Append(@, agentId)]
            ELSE @[i]]]

removeWaitGroup(B, groupId) ==
    [B EXCEPT !.waitGroups = SelectSeq(@, LAMBDA g : g.id # groupId)]

\* getWaitGroup(groupId): the group, or undefined (<<>>).
getWaitGroup(B, groupId) ==
    IF groupId \in Ids(B.waitGroups)
    THEN <<CHOOSE g \in Range(B.waitGroups) : g.id = groupId>>
    ELSE <<>>

\* `pre-subscribe-${params.id}`
HandlerKey(id) ==
    CASE id = "s1" -> "pre-subscribe-s1"
      [] id = "s2" -> "pre-subscribe-s2"
      [] id = "s3" -> "pre-subscribe-s3"

NoPreSubscribe ==
    [state |-> "none", id |-> "", agentId |-> "", eventTypes |-> {},
     excludeSelf |-> <<>>, promise |-> <<>>]

\* preSubscribe(params): the closure, then this.on and this.subscribe.
preSubscribe(B, params) ==
    LET B1 == [B EXCEPT !.pre = [state |-> "active", id |-> params.id,
                                 agentId |-> params.agentId,
                                 eventTypes |-> params.eventTypes,
                                 excludeSelf |-> params.excludeSelf,
                                 promise |-> <<>>]]
        B2 == on(B1, HandlerKey(params.id),
                 [kind |-> "pre", on |-> params.id, emit |-> ""])
    IN  subscribe(B2, [id |-> params.id, agentId |-> params.agentId,
                       eventTypes |-> params.eventTypes,
                       excludeSelf |-> Nullish(params.excludeSelf, TRUE),
                       oneShot |-> TRUE,
                       priority |-> <<Nullish(params.priority, 10)>>])

\* Mutant: dispose removes the direct handler only.
disposeHandlerOnly(B) ==
    [off(B, HandlerKey(B.pre.id)) EXCEPT !.pre.state = "disposed"]

\* The dispose function preSubscribe returns.
dispose(B) ==
    [unsubscribe(off(B, HandlerKey(B.pre.id)), B.pre.id)
        EXCEPT !.pre.state = "disposed"]

\* (b.priority ?? 0) - (a.priority ?? 0) > 0: b is to come before a.
Priority(sub) == Nullish(sub.priority, 0)

\* Mutant: no sorting, the subscriptions stay in Map order.
InsertLast(sorted, x) == Append(sorted, x)

\* Array.prototype.sort is stable: x, which followed every element of
\* `sorted` in the input, goes behind those it does not beat.
InsertByPriority(sorted, x) ==
    LET k == Cardinality({i \in DOMAIN sorted : Priority(sorted[i]) >= Priority(x)})
    IN  SubSeq(sorted, 1, k) \o <<x>> \o SubSeq(sorted, k + 1, Len(sorted))

RECURSIVE SortByPriority(_)
SortByPriority(subs) ==
    IF subs = <<>> THEN <<>>
    ELSE InsertByPriority(SortByPriority(SubSeq(subs, 1, Len(subs) - 1)),
                          subs[Len(subs)])

\* Mutant: the excludeSelf test is left out.
MatchesType(sub, event) == event.type \in sub.eventTypes

\* The two `continue` tests of emit()'s subscription loop.
Matches(sub, event) ==
    /\ ~(sub.excludeSelf /\ event.agentId = sub.agentId)
    /\ event.type \in sub.eventTypes

\* Mutant: a one-shot subscription is dropped without its event being pushed.
DeliverUnlessOneShot(B, sub, event) ==
    IF sub.oneShot THEN B
    ELSE [B EXCEPT !.pendingEvents[sub.agentId] = Append(@, event)]

\* pending.push(event) for one matching subscription.
Deliver(B, sub, event) ==
    [B EXCEPT !.pendingEvents[sub.agentId] = Append(@, event),
              !.shots[sub.id] = IF sub.oneShot THEN Append(@, event.timestamp)
                                ELSE @,
              !.log = Append(@, <<event.timestamp, sub.id>>)]

\* Mutant: the triggered one-shot subscriptions stay registered.
RemoveOneShotsNever(subs, oneShotToRemove) == subs

\* The loop that deletes the one-shot subscriptions that were triggered.
RemoveOneShots(subs, oneShotToRemove) ==
    SelectSeq(subs, LAMBDA x : x.id \notin Range(oneShotToRemove))

\* Step 2 of emit(): the loop over sortedSubs, then the removal.
RECURSIVE BufferLoop(_, _, _, _, _)
BufferLoop(B, sortedSubs, i, event, oneShotToRemove) ==
    IF i > Len(sortedSubs)
    THEN [B EXCEPT !.subscriptions = RemoveOneShots(@, oneShotToRemove)]
    ELSE LET sub == sortedSubs[i]
         IN  IF Matches(sub, event)
             THEN BufferLoop(Deliver(B, sub, event), sortedSubs, i + 1, event,
                             IF sub.oneShot THEN Append(oneShotToRemove, sub.id)
                             ELSE oneShotToRemove)
             ELSE BufferLoop(B, sortedSubs, i + 1, event, oneShotToRemove)

\* Mutant: a group counts as complete at its first completion.
GroupCompleteAtOnce(group) == TRUE

\* completedAgentIds.size >= expectedAgentIds.length
GroupComplete(group) ==
    Cardinality(group.completedAgentIds) >= Len(group.expectedAgentIds)

RECURSIVE emit(_, _, _)

\* group.onComplete(group): B.thrown tells whether the call ended in an
\* exception. A callback of kind "emits" calls emit() with AGENT_COMPLETED
\* for the first agent its group expects; B.depth counts the onComplete calls
\* that are on the call stack.
InvokeOnComplete(B, group) ==
    IF group.onComplete = "emits" /\ B.depth >= MaxStack
    THEN [B EXCEPT !.thrown = TRUE]
    ELSE LET B1 == [B EXCEPT !.fired[group.id] = Append(@, group.completedAgentIds),
                             !.thrown = group.onComplete = "throws"]
         IN  IF group.onComplete = "emits"
             THEN [emit([B1 EXCEPT !.depth = @ + 1], "AGENT_COMPLETED",
                        group.expectedAgentIds[1])
                   EXCEPT !.depth = B.depth]
             ELSE B1

\* Mutant: no try/catch around the onComplete call.
UncaughtOnComplete(B) == B

\* try { group.onComplete(group) } catch (err) { console.error(...) }
CatchOnComplete(B) == [B EXCEPT !.thrown = FALSE]

\* Mutant: a group that fired stays in the map.
DeleteGroupNever(groups, groupId) == groups

\* this.waitGroups.delete(groupId)
DeleteGroup(groups, groupId) == SelectSeq(groups, LAMBDA g : g.id # groupId)

\* The first entry of a Map that an iterator standing behind stamp `cursor`
\* visits next (0: none).
NextEntry(entries, cursor) ==
    IF \E i \in DOMAIN entries : entries[i].st > cursor
    THEN CHOOSE i \in DOMAIN entries :
            /\ entries[i].st > cursor
            /\ \A j \in DOMAIN entries : entries[j].st > cursor => i <= j
    ELSE 0

RECURSIVE checkWaitGroups(_, _, _)
checkWaitGroups(B, completedAgentId, cursor) ==
    LET i == NextEntry(B.waitGroups, cursor)
    IN  IF i = 0 THEN B
        ELSE LET group == B.waitGroups[i]
             IN  IF completedAgentId \in Range(group.expectedAgentIds)
                 THEN LET added == [group EXCEPT !.completedAgentIds =
                                        @ \cup {completedAgentId}]
                          B1 == [B EXCEPT !.waitGroups[i] = added]
                          B2 == IF GroupComplete(added)
                                THEN LET B3 == CatchOnComplete(
                                                   InvokeOnComplete(B1, added))
                                     IN  IF B3.thrown THEN B3
                                         ELSE [B3 EXCEPT !.waitGroups =
                                                  DeleteGroup(@, group.id)]
                                ELSE B1
                      IN  IF B2.thrown THEN B2
                          ELSE checkWaitGroups(B2, completedAgentId, group.st)
                 ELSE checkWaitGroups(B, completedAgentId, group.st)

\* Mutant: TASK_COMPLETED counts as a completion signal as well.
IsCompletionOrTask(type) ==
    type \in {"AGENT_COMPLETED", "REPORT_SUBMITTED", "TASK_COMPLETED"}

IsCompletion(type) == type \in {"AGENT_COMPLETED", "REPORT_SUBMITTED"}

RECURSIVE RunHandlers(_, _, _)

\* Mutant: the handler skips the agent's own events only when excludeSelf
\* is given as true.
ExcludesSelfIfTrue(excludeSelf) == excludeSelf = <<TRUE>>

\* params.excludeSelf !== false, on the optional parameter.
ExcludesSelf(excludeSelf) == excludeSelf # <<FALSE>>

\* The handler preSubscribe registers: resolvePromise(event) and
\* this.off(handlerKey) on the first event that passes its two tests.
\* Resolving a promise a second time has no effect.
PreHandler(B, event) ==
    IF ExcludesSelf(B.pre.excludeSelf) /\ event.agentId = B.pre.agentId THEN B
    ELSE IF event.type \notin B.pre.eventTypes THEN B
    ELSE off([B EXCEPT !.pre.promise = IF @ = <<>> THEN <<event>> ELSE @],
             HandlerKey(B.pre.id))

\* handler(event): B.thrown tells whether the call ended in an exception.
RunHandler(B, fn, event) ==
    IF fn.kind = "relay" /\ event.type = fn.on
    THEN emit(B, fn.emit, event.agentId)
    ELSE IF fn.kind = "throws" THEN [B EXCEPT !.thrown = TRUE]
    ELSE IF fn.kind = "pre" THEN PreHandler(B, event)
    ELSE B

\* Mutant: no try/catch around the handler call.
Uncaught(B) == B

\* try { handler(event) } catch (err) { console.error(...) }
TryCatch(B) == [B EXCEPT !.thrown = FALSE]

\* Step 1 of emit(): for (const handler of this.handlers.values()). An
\* exception that is not caught ends the loop.
RunHandlers(B, event, cursor) ==
    LET i == NextEntry(B.handlers, cursor)
    IN  IF i = 0 THEN B
        ELSE LET h == B.handlers[i]
                 B0 == [B EXCEPT !.calls = Append(@, <<event.timestamp, h.key>>)]
                 B1 == TryCatch(RunHandler(B0, h.fn, event))
             IN  IF B1.thrown THEN B1 ELSE RunHandlers(B1, event, h.st)

\* emit(event), for the event {type, agentId, timestamp: now}. An exception
\* that leaves step 1 or the wait-group check ends the call.
emit(B, type, agentId) ==
    LET event == [type |-> type, agentId |-> agentId, timestamp |-> B.clock + 1]
        B1 == RunHandlers([B EXCEPT !.clock = @ + 1], event, 0)
        B2 == BufferLoop(B1, SortByPriority(B1.subscriptions), 1, event, <<>>)
    IN  IF B1.thrown THEN B1
        ELSE IF IsCompletion(type) THEN checkWaitGroups(B2, agentId, 0) ELSE B2

\* Insertion stamps matter only by their order: between calls they are the
\* positions.
Renumber(entries) == [i \in DOMAIN entries |-> [entries[i] EXCEPT !.st = i]]

\* The bus after one call.
BusFields(B) ==
    /\ handlers' = Renumber(B.handlers)
    /\ subscriptions' = B.subscriptions
    /\ pendingEvents' = B.pendingEvents
    /\ waitGroups' = Renumber(B.waitGroups)
    /\ clock' = B.clock
    /\ shots' = B.shots
    /\ fired' = B.fired
    /\ pre' = B.pre
    /\ UNCHANGED <<storeVars, agentVars, pipeVars, bootVars>>

\* One call on the bus.
BusCall(B) ==
    /\ BusFields(B)
    /\ UNCHANGED <<buffered, called, queued, drained, seen>>

On(key, fn) ==
    /\ BusCall(on(BusState, key, fn))

Off(key) ==
    /\ BusCall(off(BusState, key))

Subscribe(subscription) ==
    /\ BusCall(subscribe(BusState, subscription))

Unsubscribe(subscriptionId) ==
    /\ BusCall(unsubscribe(BusState, subscriptionId))

DrainPendingEvents(agentId) ==
    /\ BusCall(drainPendingEvents(BusState, agentId))

\* Callers make at most `limit` emit calls.
Emit(type, agentId, limit) ==
    /\ clock < limit
    /\ BusCall(emit(BusState, type, agentId))

\* An emit call whose pushes are logged.
EmitLogged(type, agentId, limit) ==
    /\ clock < limit
    /\ BusFields(emit(BusState, type, agentId))
    /\ buffered' = emit(BusState, type, agentId).log
    /\ called' = [calls |-> emit(BusState, type, agentId).calls,
                  threw |-> emit(BusState, type, agentId).thrown]
    /\ UNCHANGED <<queued, drained, seen>>

\* An emit call whose pushes are recorded per agent.
EmitRecorded(type, agentId, limit) ==
    /\ clock < limit
    /\ BusFields(emit(BusState, type, agentId))
    /\ queued' = [X \in BusAgents |->
                     queued[X] \o SubSeq(emit(BusState, type, agentId).pendingEvents[X],
                                         Len(pendingEvents[X]) + 1,
                                         Len(emit(BusState, type, agentId).pendingEvents[X]))]
    /\ UNCHANGED <<buffered, called, drained, seen>>

\* A drainPendingEvents call whose return value is recorded.
DrainRecorded(agentId) ==
    /\ Len(drained[agentId]) < MaxDrains
    /\ BusFields(drainPendingEvents(BusState, agentId))
    /\ drained' = [drained EXCEPT ![agentId] =
                      Append(@, drainPendingEvents(BusState, agentId).returned)]
    /\ UNCHANGED <<buffered, called, queued, seen>>

\* The event passes the filter of the preSubscribe call: its type is among
\* eventTypes and it is not the agent's own event under excludeSelf (which
\* is true when omitted).
PassesFilter(event) ==
    /\ pre.state # "none"
    /\ event.type \in pre.eventTypes
    /\ ~(Nullish(pre.excludeSelf, TRUE) /\ event.agentId = pre.agentId)

\* The events one emit call emits, in the order of the emit calls: the
\* caller's event, then the event a relay handler emits on it.
EmittedBy(type, agentId) ==
    <<[type |-> type, agentId |-> agentId, timestamp |-> clock + 1]>>
    \o (IF \E i \in DOMAIN handlers :
              handlers[i].fn.kind = "relay" /\ handlers[i].fn.on = type
        THEN <<[type |-> "AGENT_COMPLETED", agentId |-> agentId,
                timestamp |-> clock + 2]>>
        ELSE <<>>)

PreSubscribe(params) ==
    /\ pre.state = "none"
    /\ BusCall(preSubscribe(BusState, params))

DisposeMark == [type |-> "dispose", agentId |-> "", timestamp |-> 0]

Dispose ==
    /\ pre.state = "active"
    /\ BusFields(dispose(BusState))
    /\ seen' = Append(seen, DisposeMark)
    /\ UNCHANGED <<buffered, called, queued, drained>>

\* An emit call after which the matching events it emitted are noted.
EmitObserved(type, agentId, limit) ==
    /\ clock < limit
    /\ BusFields(emit(BusState, type, agentId))
    /\ seen' = seen \o SelectSeq(EmittedBy(type, agentId), PassesFilter)
    /\ UNCHANGED <<buffered, called, queued, drained>>

CreateWaitGroup(params) ==
    /\ BusCall(createWaitGroup(BusState, params))

AddToWaitGroup(groupId, agentId) ==
    /\ BusCall(addToWaitGroup(BusState, groupId, agentId))

RemoveWaitGroup(groupId) ==
    /\ BusCall(removeWaitGroup(BusState, groupId))

InitBus ==
    /\ handlers = <<>>
    /\ subscriptions = <<>>
    /\ pendingEvents = [x \in BusAgents |-> <<>>]
    /\ waitGroups = <<>>
    /\ clock = 0
    /\ shots = [x \in SubIds |-> <<>>]
    /\ fired = [g \in GroupIds |-> <<>>]
    /\ buffered = <<>>
    /\ called = [calls |-> <<>>, threw |-> FALSE]
    /\ queued = [X \in BusAgents |-> <<>>]
    /\ drained = [X \in BusAgents |-> <<>>]
    /\ pre = NoPreSubscribe
    /\ seen = <<>>

\* ------------------------------------------------------- HttpSessionStore

SessionIds == {"x", "y"}
Controllers == {"t1", "t2"}

\* The controllers of the streams GET /api/acp creates, one per request.
StreamControllers == {"t1", "t2", "t3"}

\* The records upsertSession is called with.
SessionRecordInputs ==
    [sessionId : {"x"}, cwd : {"/repo"}, workspaceId : {"w1", "w2"}]

\* The store as one value: its three maps, the closed streams and the
\* history variables.
PipeState ==
    [sessions |-> sessions, sseControllers |-> sseControllers,
     pendingNotifications |-> pendingNotifications, closed |-> closed,
     wire |-> wire, pushed |-> pushed, caller |-> "", thrown |-> FALSE]

\* The i-th notification pushed, for session sessionId.
Notification(sessionId, i) == [sessionId |-> sessionId, seq |-> i]

\* {jsonrpc: "2.0", method: "session/update", params}
UpdatePayload(params) ==
    [jsonrpc |-> "2.0", method |-> "session/update", params |-> params]

\* The params of the "SSE connected." message (seq 0: not a notification).
ConnectedParams(sessionId) == [sessionId |-> sessionId, seq |-> 0]

\* controller.enqueue(chunk): throws on a closed stream.
enqueue(P, controller, payload) ==
    [P EXCEPT !.wire = Append(@, [to |-> controller, payload |-> payload,
                                  ok |-> controller \notin P.closed,
                                  by |-> P.caller]),
              !.thrown = controller \in P.closed]

\* Mutant: no catch around enqueue, the exception leaves writeSse.
Rethrow(P) == P

\* catch { }: the exception of enqueue is swallowed.
Swallow(P) == [P EXCEPT !.thrown = FALSE]

\* writeSse(controller, payload): try { controller.enqueue(...) } catch { }
writeSse(P, controller, payload) == Swallow(enqueue(P, controller, payload))

\* Mutant: the buffer is written out last in, first out.
RECURSIVE WriteAllReversed(_, _, _)
WriteAllReversed(P, controller, pending) ==
    IF pending = <<>> THEN P
    ELSE WriteAllReversed(
             writeSse(P, controller, UpdatePayload(pending[Len(pending)])),
             controller, SubSeq(pending, 1, Len(pending) - 1))

\* for (const n of pending) this.writeSse(controller, ...)
RECURSIVE WriteAll(_, _, _)
WriteAll(P, controller, pending) ==
    IF pending = <<>> THEN P
    ELSE LET P1 == writeSse(P, controller, UpdatePayload(Head(pending)))
         IN  IF P1.thrown THEN P1
             ELSE WriteAll(P1, controller, Tail(pending))

\* Mutant: the buffer is kept after a flush.
KeepPending(buffers, sessionId) == buffers

\* this.pendingNotifications.delete(sessionId); a missing entry reads as [].
DeletePending(buffers, sessionId) == [buffers EXCEPT ![sessionId] = <<>>]

\* Mutant: attachSse does not flush.
flushPendingNot(P, sessionId) == P

flushPending(P, sessionId) ==
    IF P.sseControllers[sessionId] = <<>> THEN P
    ELSE IF P.pendingNotifications[sessionId] = <<>> THEN P
    ELSE LET P1 == WriteAll(P, P.sseControllers[sessionId][1],
                            P.pendingNotifications[sessionId])
         IN  IF P1.thrown THEN P1
             ELSE [P1 EXCEPT !.pendingNotifications = DeletePending(@, sessionId)]

upsertSession(P, record) ==
    [P EXCEPT !.sessions[record.sessionId] = <<record>>]

attachSse(P, sessionId, controller) ==
    flushPending([P EXCEPT !.sseControllers[sessionId] = <<controller>>,
                           !.caller = "attachSse"], sessionId)

\* Mutant: the controller stays attached.
detachSseNot(P, sessionId) == P

detachSse(P, sessionId) ==
    [P EXCEPT !.sseControllers[sessionId] = <<>>]

\* The tail of pushNotification: buffer the notification.
Buffer(P, notification) ==
    [P EXCEPT !.pendingNotifications[notification.sessionId] =
                  Append(@, notification)]

pushNotification(P, notification) ==
    LET sessionId == notification.sessionId
        P1 == [P EXCEPT !.pushed[sessionId] = Append(@, notification),
                        !.caller = "pushNotification"]
    IN  IF P1.sseControllers[sessionId] # <<>>
        THEN writeSse(P1, P1.sseControllers[sessionId][1], UpdatePayload(notification))
        ELSE Buffer(P1, notification)

\* Mutant: without a controller the liveness message is buffered.
pushConnectedOrBuffer(P, sessionId) ==
    IF P.sseControllers[sessionId] = <<>>
    THEN Buffer(P, ConnectedParams(sessionId))
    ELSE writeSse([P EXCEPT !.caller = "pushConnected"],
                  P.sseControllers[sessionId][1],
                  UpdatePayload(ConnectedParams(sessionId)))

pushConnected(P, sessionId) ==
    IF P.sseControllers[sessionId] = <<>> THEN P
    ELSE writeSse([P EXCEPT !.caller = "pushConnected"],
                  P.sseControllers[sessionId][1],
                  UpdatePayload(ConnectedParams(sessionId)))

\* The number of notifications pushed so far, over all sessions.
Pushes == Len(pushed["x"]) + Len(pushed["y"])

\* One call on the session store.
PipeCall(P) ==
    /\ sessions' = P.sessions
    /\ sseControllers' = P.sseControllers
    /\ pendingNotifications' = P.pendingNotifications
    /\ wire' = P.wire
    /\ pushed' = P.pushed
    /\ UNCHANGED <<closed, streams, storeVars, agentVars, busVars, bootVars>>

UpsertSession(record) ==
    /\ PipeCall(upsertSession(PipeState, record))

AttachSse(sessionId, controller) ==
    /\ PipeCall(attachSse(PipeState, sessionId, controller))

DetachSse(sessionId) ==
    /\ PipeCall(detachSse(PipeState, sessionId))

PushNotification(sessionId) ==
    /\ Pushes < MaxPushes
    /\ PipeCall(pushNotification(PipeState, Notification(sessionId, Pushes + 1)))

\* The "SSE connected." messages handed to a controller so far.
Connects == Cardinality({k \in DOMAIN wire : wire[k].payload.params.seq = 0})

PushConnected(sessionId) ==
    /\ Connects < MaxConnects
    /\ PipeCall(pushConnected(PipeState, sessionId))

\* The client closes the stream of a controller: later enqueue calls throw.
CloseStream(controller) ==
    /\ controller \notin closed
    /\ closed' = closed \cup {controller}
    /\ UNCHANGED <<sessions, sseControllers, pendingNotifications, wire, pushed,
                   streams, storeVars, agentVars, busVars, bootVars>>

\* Mutant: the stream announces itself before it is attached.
startConnectedFirst(P, sessionId, controller) ==
    attachSse(pushConnected(P, sessionId), sessionId, controller)

\* start(controller) of the stream GET returns: attach, then the liveness
\* message.
start(P, sessionId, controller) ==
    pushConnected(attachSse(P, sessionId, controller), sessionId)

\* The abort listener of a request: store.detachSse(sessionId), then
\* controller.close().
abort(P, sessionId, controller) ==
    [detachSse(P, sessionId) EXCEPT !.closed = @ \cup {controller}]

\* The controllers of the streams opened so far.
Opened == {streams[k].controller : k \in DOMAIN streams}

\* GET /api/acp?sessionId=...: a new stream, with a controller of its own.
Get(sessionId, controller) ==
    /\ controller \notin Opened \cup closed
    /\ sessions' = start(PipeState, sessionId, controller).sessions
    /\ sseControllers' = start(PipeState, sessionId, controller).sseControllers
    /\ pendingNotifications' =
          start(PipeState, sessionId, controller).pendingNotifications
    /\ wire' = start(PipeState, sessionId, controller).wire
    /\ streams' = Append(streams, [controller |-> controller,
                                    sessionId |-> sessionId])
    /\ UNCHANGED <<closed, pushed, storeVars, agentVars, busVars, bootVars>>

\* The sessionId of the request that opened the stream of a controller.
SessionOf(controller) ==
    streams[CHOOSE k \in DOMAIN streams : streams[k].controller = controller].sessionId

\* The request of a stream is aborted (the client went away).
Abort(controller) ==
    /\ controller \in Opened \ closed
    /\ sseControllers' =
          abort(PipeState, SessionOf(controller), controller).sseControllers
    /\ closed' = abort(PipeState, SessionOf(controller), controller).closed
    /\ UNCHANGED <<sessions, pendingNotifications, wire, pushed, streams,
                   storeVars, agentVars, busVars, bootVars>>

InitPipe ==
    /\ sessions = [x \in SessionIds |-> <<>>]
    /\ sseControllers = [x \in SessionIds |-> <<>>]
    /\ pendingNotifications = [x \in SessionIds |-> <<>>]
    /\ closed = {}
    /\ wire = <<>>
    /\ pushed = [x \in SessionIds |-> <<>>]
    /\ streams = <<>>

\* ----------------------------------------------------------- RoutaSystem

\* The environment variables the factory reads; <<>> is an unset variable.
EnvNames == {"DATABASE_URL", "ROUTA_DB_DRIVER", "VERCEL", "AWS_LAMBDA_FUNCTION_NAME"}

EnvValues(name) ==
    CASE name = "DATABASE_URL" -> {<<>>, <<"postgres://neon/routa">>}
      [] name = "ROUTA_DB_DRIVER" ->
            {<<>>, <<"postgres">>, <<"sqlite">>, <<"memory">>, <<"mysql">>}
      [] name = "VERCEL" -> {<<>>, <<"1">>}
      [] name = "AWS_LAMBDA_FUNCTION_NAME" -> {<<>>, <<"routa-fn">>}

\* The factory as one value: the environment, the two globals, and what the
\* call in progress threw or returns.
BootState ==
    [env |-> env, system |-> system, database |-> database,
     threw |-> FALSE, value |-> <<>>]

\* getDatabaseDriver(): "postgres" | "sqlite" | "memory"
getDatabaseDriver(e) ==
    IF e["ROUTA_DB_DRIVER"] \in {<<"postgres">>, <<"sqlite">>, <<"memory">>}
    THEN e["ROUTA_DB_DRIVER"][1]
    ELSE IF e["DATABASE_URL"] # <<>> THEN "postgres"
    ELSE IF e["VERCEL"] = <<>> /\ e["AWS_LAMBDA_FUNCTION_NAME"] = <<>> THEN "sqlite"
    ELSE "memory"

isDatabaseConfigured(e) == getDatabaseDriver(e) \in {"postgres", "sqlite"}

\* getPostgresDatabase(): the cached connection, or a new one to DATABASE_URL;
\* throws when there is neither.
getPostgresDatabase(G) ==
    IF G.database # <<>> THEN G
    ELSE IF G.env["DATABASE_URL"] = <<>> THEN [G EXCEPT !.threw = TRUE]
    ELSE [G EXCEPT !.database = G.env["DATABASE_URL"]]

\* getDatabase(): throws for the drivers "sqlite" and "memory".
getDatabase(G) ==
    IF getDatabaseDriver(G.env) = "postgres" THEN getPostgresDatabase(G)
    ELSE [G EXCEPT !.threw = TRUE]

\* createPgSystem(): stores over getDatabase(), isPersistent: true.
createPgSystem(G) ==
    LET G1 == getDatabase(G)
    IN  IF G1.threw THEN G1
        ELSE [G1 EXCEPT !.value = <<[isPersistent |-> TRUE, db |-> G1.database]>>]

\* createInMemorySystem(): in-memory stores, isPersistent: false.
createInMemorySystem(G) ==
    [G EXCEPT !.value = <<[isPersistent |-> FALSE, db |-> <<>>]>>]

\* getRoutaSystem(): the global instance, created on the first call that
\* does not throw.
getRoutaSystem(G) ==
    IF G.system = <<>>
    THEN LET G1 == IF isDatabaseConfigured(G.env) THEN createPgSystem(G)
                   ELSE createInMemorySystem(G)
         IN  IF G1.threw THEN G1 ELSE [G1 EXCEPT !.system = G1.value]
    ELSE [G EXCEPT !.value = G.system]

NoAnswer == [threw |-> FALSE, value |-> <<>>]

GetRoutaSystem ==
    /\ system' = getRoutaSystem(BootState).system
    /\ database' = getRoutaSystem(BootState).database
    /\ answer' = [threw |-> getRoutaSystem(BootState).threw,
                  value |-> getRoutaSystem(BootState).value]
    /\ UNCHANGED <<env, storeVars, agentVars, busVars, pipeVars>>

\* The process is started with, or sets, an environment variable.
SetEnv(name, value) ==
    /\ env' = [env EXCEPT ![name] = value]
    /\ UNCHANGED <<system, database, answer, storeVars, agentVars, busVars, pipeVars>>

InitBoot ==
    /\ env = [name \in EnvNames |-> <<>>]
    /\ system = <<>>
    /\ database = <<>>
    /\ answer = NoAnswer

\* --------------------------------------------------------- specifications

NoView == [id |-> "", version |-> 0, updates |-> <<>>]

InitAgents ==
    /\ agentPc = [a \in Agents |-> "idle"]
    /\ agentView = [a \in Agents |-> NoView]
    /\ agentRet = [a \in Agents |-> RetVoid]

InitStore ==
    /\ tasks = <<>>
    /\ ret = RetVoid
    /\ highWater = [i \in TaskIds |-> 0]

Init == InitStore /\ InitAgents /\ InitBus /\ InitPipe /\ InitBoot

Next ==
    \/ \E task \in TaskInputs : Save(task)
    \/ \E taskId \in TaskIds, status \in StatusInputs : UpdateStatus(taskId, status)
    \/ \E taskId \in TaskIds : Delete(taskId)
    \/ \E taskId \in TaskIds, v \in 0..MaxVersion, u \in UpdateInputs :
          AtomicUpdate(taskId, v, u)

\* The task store, called by one caller at a time.
Spec == Init /\ [][Next]_vars

NextHistory ==
    \/ \E task \in TaskInputs : SaveCall(task) /\ Recorded
    \/ \E taskId \in TaskIds, status \in StatusInputs :
          UpdateStatusCall(taskId, status) /\ Recorded
    \/ \E taskId \in TaskIds : DeleteCall(taskId) /\ Recorded
    \/ \E taskId \in TaskIds, v \in 0..MaxVersion, u \in UpdateInputs :
          AtomicUpdateCall(taskId, v, u) /\ Recorded

\* The task store with the history of each id's versions recorded.
SpecHistory == Init /\ [][NextHistory]_vars

\* Tasks in progress, as the coordinator saved and assigned them.
AssignedStores ==
    [TaskIds -> [status : {"IN_PROGRESS"}, dependencies : {<<>>},
                 workspaceId : {"w1"}, version : 1..(MaxVersion - 1)]]

InitCAS ==
    /\ tasks \in AssignedStores
    /\ ret = RetVoid
    /\ highWater = [i \in TaskIds |-> 0]
    /\ InitAgents
    /\ InitBus
    /\ InitPipe
    /\ InitBoot

NextCAS ==
    \/ \E a \in Agents, taskId \in TaskIds, u \in ReportInputs :
          AgentRead(a, taskId, u)
    \/ \E a \in Agents : AgentReport(a)
    \/ \E a \in Agents : AgentRetry(a)

\* Independent agents reporting completion concurrently.
SpecCAS == InitCAS /\ [][NextCAS]_vars

NextBus ==
    \/ \E key \in HandlerKeys, fn \in HandlerInputs : On(key, fn)
    \/ \E key \in HandlerKeys : Off(key)
    \/ \E subscription \in SubscriptionInputs : Subscribe(subscription)
    \/ \E subscriptionId \in SubIds : Unsubscribe(subscriptionId)
    \/ \E agentId \in {"a", "b"} : DrainPendingEvents(agentId)
    \/ \E type \in {"AGENT_COMPLETED", "TASK_COMPLETED"}, agentId \in {"a", "b"} :
          Emit(type, agentId, MaxEmits)

\* The bus with direct handlers and buffered subscriptions.
SpecBus == Init /\ [][NextBus]_vars

NextPriority ==
    \/ \E subscription \in PrioritySubscriptionInputs : Subscribe(subscription)
    \/ \E subscriptionId \in SubIds : Unsubscribe(subscriptionId)
    \/ \E type \in {"AGENT_COMPLETED", "TASK_COMPLETED"} :
          EmitLogged(type, "b", MaxEmits)

\* The bus with subscriptions of several priorities and logged emits.
SpecPriority == Init /\ [][NextPriority]_vars

NextHandlers ==
    \/ \E key \in FailingHandlerKeys, fn \in FailingHandlerInputs : On(key, fn)
    \/ \E key \in FailingHandlerKeys : Off(key)
    \/ \E subscription \in BystanderSubscriptionInputs : Subscribe(subscription)
    \/ \E params \in BystanderWaitGroupInputs : CreateWaitGroup(params)
    \/ \E type \in {"AGENT_COMPLETED", "TASK_COMPLETED"}, agentId \in {"a", "b"} :
          EmitLogged(type, agentId, MaxEmits)

\* The bus with direct handlers that throw, return or emit.
SpecHandlers == Init /\ [][NextHandlers]_vars

NextDrain ==
    \/ \E subscription \in DrainSubscriptionInputs : Subscribe(subscription)
    \/ \E type \in {"AGENT_COMPLETED", "TASK_COMPLETED"}, agentId \in {"a", "b"} :
          EmitRecorded(type, agentId, MaxEmits)
    \/ \E agentId \in {"a", "b"} : DrainRecorded(agentId)

\* The bus with consumers that poll their queues.
SpecDrain == Init /\ [][NextDrain]_vars

NextPreSubscribe ==
    \/ \E params \in PreSubscribeInputs : PreSubscribe(params)
    \/ Dispose
    \/ \E fn \in HandlerInputs : On("h1", fn)
    \/ Off("h1")
    \/ \E type \in {"AGENT_COMPLETED", "TASK_COMPLETED"}, agentId \in {"a", "b"} :
          EmitObserved(type, agentId, MaxEmits + 1)

\* The bus with one preSubscribe call and a handler that emits.
SpecPreSubscribe == Init /\ [][NextPreSubscribe]_vars

NextPipe ==
    \/ \E record \in SessionRecordInputs : UpsertSession(record)
    \/ \E sessionId \in SessionIds, controller \in Controllers :
          AttachSse(sessionId, controller)
    \/ \E sessionId \in SessionIds : DetachSse(sessionId)
    \/ \E sessionId \in SessionIds : PushNotification(sessionId)
    \/ \E controller \in Controllers : CloseStream(controller)

\* The session store with streams that attach, detach and close.
SpecPipe == Init /\ [][NextPipe]_vars

NextConnect ==
    \/ \E controller \in Controllers : AttachSse("x", controller)
    \/ DetachSse("x")
    \/ PushNotification("x")
    \/ PushConnected("x")
    \/ \E controller \in Controllers : CloseStream(controller)

\* The session store with the liveness message, for one session.
SpecConnect == Init /\ [][NextConnect]_vars

NextBoot ==
    \/ GetRoutaSystem
    \/ \E name \in EnvNames : \E value \in EnvValues(name) : SetEnv(name, value)

\* The system factory under every environment.
SpecBoot == Init /\ [][NextBoot]_vars

NextRepeated ==
    \/ \E params \in RepeatedWaitGroupInputs : CreateWaitGroup(params)
    \/ \E type \in {"AGENT_COMPLETED", "REPORT_SUBMITTED"}, agentId \in BusAgents :
          Emit(type, agentId, MaxSignals)

\* The bus with wait groups whose list of expected agents repeats an id.
SpecRepeated == Init /\ [][NextRepeated]_vars

NextDispose ==
    \/ \E params \in PreSubscribeInputs : PreSubscribe(params)
    \/ Dispose
    \/ \E subscription \in ReuseSubscriptionInputs : Subscribe(subscription)
    \/ \E type \in {"AGENT_COMPLETED", "TASK_COMPLETED"}, agentId \in {"a", "b"} :
          EmitObserved(type, agentId, MaxEmits + 1)

\* The bus with one preSubscribe call whose id other callers use as well.
SpecDispose == Init /\ [][NextDispose]_vars

NextStream ==
    \/ \E sessionId \in SessionIds, controller \in StreamControllers :
          Get(sessionId, controller)
    \/ \E controller \in StreamControllers : Abort(controller)
    \/ \E sessionId \in SessionIds : PushNotification(sessionId)

\* The SSE route: streams that connect and abort, and notifications.
SpecStream == Init /\ [][NextStream]_vars

NextReentrant ==
    \/ \E params \in EmittingWaitGroupInputs : CreateWaitGroup(params)
    \/ \E type \in {"AGENT_COMPLETED", "REPORT_SUBMITTED"}, agentId \in BusAgents :
          Emit(type, agentId, MaxSignals)

\* The bus with wait groups whose callbacks emit.
SpecReentrant == Init /\ [][NextReentrant]_vars

NextWaitGroup ==
    \/ \E params \in WaitGroupInputs : CreateWaitGroup(params)
    \/ \E groupId \in GroupIds, agentId \in BusAgents :
          AddToWaitGroup(groupId, agentId)
    \/ \E groupId \in GroupIds : RemoveWaitGroup(groupId)
    \/ \E type \in {"AGENT_COMPLETED", "REPORT_SUBMITTED", "TASK_COMPLETED"},
          agentId \in BusAgents : Emit(type, agentId, MaxSignals)

\* The bus with wait groups.
SpecWaitGroup == Init /\ [][NextWaitGroup]_vars

\* ------------------------------------------------- claims: the task store

\* C1: atomicUpdate(id, v, u) returns true, stores version v + 1 and applies
\* u exactly when the stored version of task id equals v at the call; in
\* every other case it returns false and no row of the table changes.
C1_AtomicUpdateIsCompareAndSwap ==
    \A taskId \in TaskIds, v \in 0..MaxVersion, u \in UpdateInputs :
        LET after == AtomicUpdateStore(tasks, taskId, v, u)
            result == AtomicUpdateResult(tasks, taskId, v)
        IN  IF Exists(tasks, taskId) /\ tasks[taskId].version = v
            THEN /\ result = RetTrue
                 /\ after[taskId].version = v + 1
                 /\ \A f \in DOMAIN u : after[taskId][f] = u[f]
            ELSE /\ result = RetFalse
                 /\ after = tasks

\* A stale call was rejected on a task that an earlier call had updated.
C1_Witness ==
    /\ ret = RetFalse
    /\ \E taskId \in DOMAIN tasks :
          tasks[taskId].version = 2 /\ tasks[taskId].status = "COMPLETED"

\* C2: when two agents read a task at the same version v and each calls
\* atomicUpdate(id, v, ...), exactly one call returns true, the other false,
\* the stored version is v + 1 and the stored fields are the winner's.
C2_NoLostUpdate ==
    \A a \in Agents, b \in Agents :
        (/\ a # b
         /\ agentPc[a] = "done" /\ agentPc[b] = "done"
         /\ agentView[a].id = agentView[b].id
         /\ agentView[a].version = agentView[b].version)
        => LET id == agentView[a].id
               v == agentView[a].version
               winner == IF agentRet[a] = RetTrue THEN a ELSE b
           IN  /\ {agentRet[a], agentRet[b]} = {RetTrue, RetFalse}
               /\ tasks[id].version = v + 1
               /\ \A f \in DOMAIN agentView[winner].updates :
                     tasks[id][f] = agentView[winner].updates[f]

\* Both agents read the same version and reported different outcomes.
C2_Witness ==
    /\ agentPc["r1"] = "done" /\ agentPc["r2"] = "done"
    /\ agentView["r1"].id = agentView["r2"].id
    /\ agentView["r1"].version = agentView["r2"].version
    /\ agentView["r1"].updates # agentView["r2"].updates
    /\ agentRet["r2"] = RetTrue

\* C3: every accepted mutation of an existing task (save on an existing id,
\* updateStatus, a successful atomicUpdate) increases its stored version by
\* exactly 1, whatever version the caller's task object carries.
C3_AcceptedMutationAddsOne ==
    \A taskId \in DOMAIN tasks :
        LET next == tasks[taskId].version + 1
        IN  /\ \A task \in TaskInputs :
                  task.id = taskId => SaveStore(tasks, task)[taskId].version = next
            /\ \A status \in StatusInputs :
                  UpdateStatusStore(tasks, taskId, status)[taskId].version = next
            /\ \A v \in 0..MaxVersion, u \in UpdateInputs :
                  AtomicUpdateResult(tasks, taskId, v) = RetTrue
                  => AtomicUpdateStore(tasks, taskId, v, u)[taskId].version = next

\* A task inserted at version 1 has been mutated twice.
C3_Witness ==
    \E taskId \in DOMAIN tasks :
        tasks[taskId].version = 3 /\ tasks[taskId].status = "NEEDS_FIX"

\* C4: the version stored under a task id is never below 1 and never
\* decreases or returns to a value it held earlier, over any sequence of
\* save, updateStatus, atomicUpdate and delete calls.
C4_VersionNeverReturns ==
    \A taskId \in DOMAIN tasks :
        /\ tasks[taskId].version >= 1
        /\ tasks[taskId].version >= highWater[taskId]

\* C5: T is in findReadyTasks(W) iff T.status = PENDING and every dependency
\* id of T has a record in the store, in whatever workspace, whose status is
\* COMPLETED.
C5_ReadyIffDependenciesCompleted ==
    \A w \in WorkspaceIds : \A t \in listByWorkspace(tasks, w) :
        t \in findReadyTasks(tasks, w)
        <=> /\ tasks[t].status = "PENDING"
            /\ \A d \in Range(tasks[t].dependencies) :
                  Exists(tasks, d) /\ tasks[d].status = "COMPLETED"

\* C6: a task with a dependency id that has no record in the store is never
\* returned by findReadyTasks; deleting a dependency removes every dependent
\* from the ready set.
C6_MissingDependencyNotReady ==
    /\ \A w \in WorkspaceIds : \A t \in findReadyTasks(tasks, w) :
          \A d \in Range(tasks[t].dependencies) : Exists(tasks, d)
    /\ \A d \in TaskIds :
          LET after == DeleteStore(tasks, d)
          IN  \A w \in WorkspaceIds : \A t \in findReadyTasks(after, w) :
                 d \notin Range(after[t].dependencies)

\* A PENDING task whose only dependency has no record.
C6_Witness ==
    \E t \in DOMAIN tasks :
        /\ tasks[t].status = "PENDING"
        /\ tasks[t].dependencies # <<>>
        /\ \A d \in Range(tasks[t].dependencies) : ~Exists(tasks, d)
        /\ t \notin findReadyTasks(tasks, tasks[t].workspaceId)

\* a (no dependencies) and b (PENDING, dependencies = [a]) in workspace w.
Chain(store, a, b, w) ==
    /\ a # b /\ Exists(store, a) /\ Exists(store, b)
    /\ store[a].workspaceId = w /\ store[b].workspaceId = w
    /\ store[a].dependencies = <<>> /\ store[b].dependencies = <<a>>
    /\ store[b].status = "PENDING"

\* C7: with A (no dependencies) and B (dependencies = [A]) in one workspace,
\* B is not ready while A is not COMPLETED; right after a successful
\* atomicUpdate(A, v, {status: COMPLETED}) the ready set holds B and not A; a
\* repeated atomicUpdate(A, v, ...) with the stale v returns false and leaves
\* A and the ready set unchanged.
C7_DependentBecomesReady ==
    \A a \in TaskIds, b \in TaskIds, w \in WorkspaceIds :
        Chain(tasks, a, b, w) =>
           /\ tasks[a].status # "COMPLETED" => b \notin findReadyTasks(tasks, w)
           /\ tasks[a].status = "PENDING" =>
                 LET v == tasks[a].version
                     done == [f \in {"status"} |-> "COMPLETED"]
                     after == AtomicUpdateStore(tasks, a, v, done)
                 IN  /\ AtomicUpdateResult(tasks, a, v) = RetTrue
                     /\ a \in findReadyTasks(tasks, w)
                     /\ b \in findReadyTasks(after, w)
                     /\ a \notin findReadyTasks(after, w)
                     /\ AtomicUpdateResult(after, a, v) = RetFalse
                     /\ \A u \in UpdateInputs :
                           AtomicUpdateStore(after, a, v, u) = after

\* A was completed by an atomicUpdate and B, which depends on it, is ready.
C7_Witness ==
    /\ ret = RetTrue
    /\ Chain(tasks, "A", "B", "w1")
    /\ tasks["A"].status = "COMPLETED" /\ tasks["A"].version = 2
    /\ findReadyTasks(tasks, "w1") = {"B"}

\* --------------------------------------------------- claims: the EventBus

\* The event a caller emits now.
EventNow(type, agentId) ==
    [type |-> type, agentId |-> agentId, timestamp |-> clock + 1]

\* A direct handler answers events of this type with an emit of its own.
HandlerEmitsOn(type) ==
    \E i \in DOMAIN handlers :
        handlers[i].fn.kind = "relay" /\ handlers[i].fn.on = type

\* C8: a one-shot subscription causes at most one event to be queued over
\* its lifetime, across any sequence of emits (emits made inside direct
\* handlers included), and after the emit of its first matching event it is
\* absent from the subscription set.
C8_OneShotAtMostOnce ==
    /\ \A id \in SubIds : Len(shots[id]) <= 1
    /\ \A i \in DOMAIN subscriptions :
          subscriptions[i].oneShot => shots[subscriptions[i].id] = <<>>
    /\ \A type \in {"AGENT_COMPLETED", "TASK_COMPLETED"}, agentId \in {"a", "b"} :
          LET after == emit(BusState, type, agentId)
          IN  \A i \in DOMAIN subscriptions :
                 LET sub == subscriptions[i]
                 IN  sub.oneShot /\ Matches(sub, EventNow(type, agentId))
                     => /\ sub.id \notin Ids(after.subscriptions)
                        /\ Len(after.shots[sub.id]) <= 1

\* A one-shot subscription of a queued the first event emitted, is gone, and
\* a second emit has been made since without anything more reaching a.
C8_Witness ==
    /\ clock = 2
    /\ shots["s1"] = <<1>>
    /\ "s1" \notin Ids(subscriptions)
    /\ Len(pendingEvents["a"]) = 1

\* C9 as stated: the first emitted event that matches a registered one-shot
\* subscription and is not excluded is the event appended to the owner's
\* pending queue before the subscription is removed.
C9_FirstEmittedIsQueued ==
    \A type \in {"AGENT_COMPLETED", "TASK_COMPLETED"}, agentId \in {"a", "b"} :
        LET after == emit(BusState, type, agentId)
        IN  \A i \in DOMAIN subscriptions :
               LET sub == subscriptions[i]
               IN  sub.oneShot /\ Matches(sub, EventNow(type, agentId))
                   => after.shots[sub.id] = <<clock + 1>>

\* C9, what emit does guarantee: a registered one-shot subscription that
\* matches an emitted event has exactly one matching event appended to its owner's pending
\* queue before it is removed; it is the emitted event itself unless a direct
\* handler emits during that emit, and then it is an event of that emit call.
C9_OneShotReceivesItsMatch ==
    \A type \in {"AGENT_COMPLETED", "TASK_COMPLETED"}, agentId \in {"a", "b"} :
        LET after == emit(BusState, type, agentId)
        IN  \A i \in DOMAIN subscriptions :
               LET sub == subscriptions[i]
                   before == pendingEvents[sub.agentId]
                   queue == after.pendingEvents[sub.agentId]
                   got == after.shots[sub.id]
               IN  sub.oneShot /\ Matches(sub, EventNow(type, agentId))
                   => /\ Len(got) = 1
                      /\ got[1] > clock
                      /\ ~HandlerEmitsOn(type) => got[1] = clock + 1
                      /\ SubSeq(queue, 1, Len(before)) = before
                      /\ \E k \in (Len(before) + 1)..Len(queue) :
                            /\ queue[k].timestamp = got[1]
                            /\ Matches(sub, queue[k])
                      /\ sub.id \notin Ids(after.subscriptions)

\* With an emitting handler registered, a one-shot subscription of b has
\* been served the event stamped 2 (from a) and is gone.
C9_Witness ==
    /\ handlers # <<>>
    /\ clock = 2
    /\ shots["s2"] = <<2>>
    /\ "s2" \notin Ids(subscriptions)
    /\ pendingEvents["b"] = <<[type |-> "AGENT_COMPLETED", agentId |-> "a",
                               timestamp |-> 2]>>

\* C10: for a wait group with expected agents {a, b, c}, onComplete is
\* invoked exactly once for every arrival order of the three completion
\* events; a repeated completion event from an already-completed member does
\* not change the size of completedAgentIds and does not invoke it again.
C10_WaitGroupFiresOnce ==
    /\ \A g \in GroupIds : Len(fired[g]) <= 1
    /\ \A i \in DOMAIN waitGroups : fired[waitGroups[i].id] = <<>>
    /\ \A i \in DOMAIN waitGroups :
          LET group == waitGroups[i]
          IN  (Len(group.expectedAgentIds) = 3
               /\ Range(group.expectedAgentIds) = {"a", "b", "c"})
              => \A type \in {"AGENT_COMPLETED", "REPORT_SUBMITTED"},
                    agentId \in BusAgents :
                    LET after == emit(BusState, type, agentId)
                        done == group.completedAgentIds \cup {agentId}
                    IN  IF done = {"a", "b", "c"}
                        THEN /\ after.fired[group.id] = <<{"a", "b", "c"}>>
                             /\ group.id \notin Ids(after.waitGroups)
                        ELSE /\ after.fired[group.id] = <<>>
                             /\ \E j \in DOMAIN after.waitGroups :
                                   /\ after.waitGroups[j].id = group.id
                                   /\ after.waitGroups[j].completedAgentIds = done
                                   /\ agentId \in group.completedAgentIds
                                      => Cardinality(done)
                                         = Cardinality(group.completedAgentIds)

\* The group of a, b and c fired once, after three completions and a repeat.
C10_Witness ==
    /\ fired["g1"] = <<{"a", "b", "c"}>>
    /\ "g1" \notin Ids(waitGroups)
    /\ clock = 4

\* C11: every wait group's completedAgentIds is a subset of its
\* expectedAgentIds; onComplete is invoked only when every expected agent has
\* signalled completion; and a group whose onComplete has been invoked is not
\* retrievable by getWaitGroup.
C11_WaitGroupInvariant ==
    /\ \A i \in DOMAIN waitGroups :
          waitGroups[i].completedAgentIds \subseteq Range(waitGroups[i].expectedAgentIds)
    /\ \A g \in GroupIds : fired[g] # <<>> => getWaitGroup(BusState, g) = <<>>
    /\ \A type \in {"AGENT_COMPLETED", "REPORT_SUBMITTED", "TASK_COMPLETED"},
          agentId \in BusAgents :
          LET after == emit(BusState, type, agentId)
          IN  \A i \in DOMAIN waitGroups :
                 LET group == waitGroups[i]
                 IN  after.fired[group.id] # <<>>
                     => /\ IsCompletion(type)
                        /\ Range(group.expectedAgentIds)
                              \subseteq group.completedAgentIds \cup {agentId}
                        /\ after.fired[group.id] = <<Range(group.expectedAgentIds)>>
                        /\ getWaitGroup(after, group.id) = <<>>

\* The group created for a and b has fired and is gone, while another group
\* is still waiting with part of its agents completed.
C11_Witness ==
    /\ fired["g1"] = <<{"a", "b"}>>
    /\ getWaitGroup(BusState, "g1") = <<>>
    /\ \E i \in DOMAIN waitGroups :
          /\ waitGroups[i].completedAgentIds # {}
          /\ waitGroups[i].completedAgentIds # Range(waitGroups[i].expectedAgentIds)

\* The position of subscription id in the subscriptions Map (0: absent).
Position(subs, id) ==
    IF id \in Ids(subs) THEN CHOOSE i \in DOMAIN subs : subs[i].id = id ELSE 0

\* C12: within one emit the event is buffered for the matching subscriptions
\* in order of priority descending, a missing priority counting as 0, and
\* for subscriptions of equal priority in registration order; each matching
\* subscription is served once and no other one is.
C12_BufferedByPriority ==
    \A type \in {"AGENT_COMPLETED", "TASK_COMPLETED"} :
        LET log == emit(BusState, type, "b").log
            event == EventNow(type, "b")
            sub(k) == subscriptions[Position(subscriptions, log[k][2])]
            prio(k) == IF sub(k).priority = <<>> THEN 0 ELSE sub(k).priority[1]
        IN  /\ \A k \in DOMAIN log : log[k][1] = clock + 1
            /\ {log[k][2] : k \in DOMAIN log}
                  = {subscriptions[i].id : i \in {j \in DOMAIN subscriptions :
                                                    Matches(subscriptions[j], event)}}
            /\ \A k, l \in DOMAIN log :
                  k < l => \/ prio(k) > prio(l)
                           \/ /\ prio(k) = prio(l)
                              /\ Position(subscriptions, log[k][2])
                                 < Position(subscriptions, log[l][2])

\* Registered in the order 0, 5, 10, three subscriptions were served by the
\* last emit in the order 10, 5, 0.
C12_Witness ==
    /\ Len(subscriptions) = 3
    /\ subscriptions[1].priority = <<>>
    /\ subscriptions[2].priority = <<5>>
    /\ subscriptions[3].priority = <<10>>
    /\ Len(buffered) = 3
    /\ \A k \in 1..3 : buffered[k][2] = subscriptions[4 - k].id

\* Two subscriptions of priority 0, one of them without a priority field,
\* were served in registration order behind one of priority 5 registered last.
C12_WitnessTie ==
    /\ Len(subscriptions) = 3
    /\ subscriptions[1].priority = <<0>>
    /\ subscriptions[2].priority = <<>>
    /\ subscriptions[3].priority = <<5>>
    /\ buffered = <<<<clock, subscriptions[3].id>>, <<clock, subscriptions[1].id>>,
                    <<clock, subscriptions[2].id>>>>

\* The registered subscriptions owned by agent X that are interested in the
\* event: its type is among their eventTypes and it is not X's own event
\* under excludeSelf.
Interested(X, event) ==
    {i \in DOMAIN subscriptions :
        /\ subscriptions[i].agentId = X
        /\ event.type \in subscriptions[i].eventTypes
        /\ ~(subscriptions[i].excludeSelf /\ event.agentId = X)}

Copies(n, event) == [k \in 1..n |-> event]

\* C13 as stated: for every emit(event) and every agent X, the number of
\* copies of the event appended to X's pending queue equals the number of
\* registered subscriptions owned by X that are interested in the event.
C13_OneCopyPerRegistration ==
    \A type \in {"AGENT_COMPLETED", "TASK_COMPLETED"}, agentId \in {"a", "b"} :
        LET event == EventNow(type, agentId)
            after == emit(BusState, type, agentId)
        IN  \A X \in BusAgents :
               Cardinality({k \in DOMAIN after.pendingEvents[X] :
                               /\ k > Len(pendingEvents[X])
                               /\ after.pendingEvents[X][k] = event})
               = Cardinality(Interested(X, event))

\* C13, what emit does guarantee: the copies of the event appended to X's
\* queue are one per
\* interested subscription of X that is registered when emit reaches its
\* buffering step, that is, after the direct handlers have run. With no
\* handler emitting on the event these are the subscriptions registered at
\* the call and nothing else is appended to any queue; when a handler emits
\* a second event, that event is buffered first by the same rule, and a
\* one-shot subscription it served is not served again.
C13_OneCopyPerRegistrationAtBuffering ==
    \A type \in {"AGENT_COMPLETED", "TASK_COMPLETED"}, agentId \in {"a", "b"} :
        LET event == EventNow(type, agentId)
            after == emit(BusState, type, agentId)
            inner == [type |-> "AGENT_COMPLETED", agentId |-> agentId,
                      timestamp |-> clock + 2]
        IN  \A X \in BusAgents :
               IF HandlerEmitsOn(type)
               THEN LET served == {i \in Interested(X, inner) :
                                      subscriptions[i].oneShot}
                    IN  after.pendingEvents[X]
                        = pendingEvents[X]
                          \o Copies(Cardinality(Interested(X, inner)), inner)
                          \o Copies(Cardinality(Interested(X, event) \ served), event)
               ELSE after.pendingEvents[X]
                    = pendingEvents[X]
                      \o Copies(Cardinality(Interested(X, event)), event)

\* Agent a owns two subscriptions interested in b's event and has received
\* two copies of it, while b, whose own subscription is not registered, has
\* received nothing.
C13_Witness ==
    /\ clock = 1
    /\ Len(subscriptions) = 2
    /\ pendingEvents["a"] = Copies(2, [type |-> "AGENT_COMPLETED", agentId |-> "b",
                                       timestamp |-> 1])
    /\ pendingEvents["b"] = <<>>

\* The bus with every throwing handler replaced by one that returns.
WithoutThrowers ==
    [BusState EXCEPT !.handlers =
        [i \in DOMAIN @ |-> IF @[i].fn.kind = "throws"
                            THEN [@[i] EXCEPT !.fn = QuietHandler] ELSE @[i]]]

\* C14: a direct handler that throws during emit does not stop the emit:
\* emit returns normally, every registered handler is invoked with the
\* event, and the queues, the subscriptions (one-shot removal) and the wait
\* groups (completion check) end as they do when no handler throws.
C14_ThrowingHandlerIsContained ==
    \A type \in {"AGENT_COMPLETED", "TASK_COMPLETED"}, agentId \in {"a", "b"} :
        LET after == emit(BusState, type, agentId)
            quiet == emit(WithoutThrowers, type, agentId)
        IN  /\ ~after.thrown
            /\ \A key \in Keys(handlers) :
                  Cardinality({k \in DOMAIN after.calls :
                                  after.calls[k] = <<clock + 1, key>>}) = 1
            /\ after.calls = quiet.calls
            /\ after.pendingEvents = quiet.pendingEvents
            /\ after.subscriptions = quiet.subscriptions
            /\ after.waitGroups = quiet.waitGroups
            /\ after.fired = quiet.fired
            /\ after.shots = quiet.shots
            /\ \A i \in DOMAIN subscriptions :
                  LET sub == subscriptions[i]
                  IN  (type = "AGENT_COMPLETED" /\ agentId = "b")
                      => /\ after.pendingEvents["a"]
                            = Append(pendingEvents["a"], EventNow(type, agentId))
                         /\ sub.oneShot => after.subscriptions = <<>>
            /\ \A i \in DOMAIN waitGroups :
                  (type = "AGENT_COMPLETED" /\ agentId = "b"
                   /\ waitGroups[i].expectedAgentIds = <<"b">>)
                  => after.fired["g1"] = <<{"b"}>> /\ after.waitGroups = <<>>

\* Handler h1 throws and h2 does not: the last emit called both, returned,
\* queued its event for a, removed a's one-shot subscription and fired the
\* wait group.
C14_Witness ==
    /\ Len(handlers) = 2
    /\ handlers[1].fn = ThrowingHandler
    /\ handlers[2].fn = QuietHandler
    /\ called = [calls |-> <<<<1, handlers[1].key>>, <<1, handlers[2].key>>>>,
                 threw |-> FALSE]
    /\ pendingEvents["a"] = <<[type |-> "AGENT_COMPLETED", agentId |-> "b",
                               timestamp |-> 1]>>
    /\ shots["s1"] = <<1>>
    /\ subscriptions = <<>>
    /\ fired["g1"] = <<{"b"}>>
    /\ waitGroups = <<>>

RECURSIVE Flatten(_)
Flatten(lists) ==
    IF lists = <<>> THEN <<>> ELSE Head(lists) \o Flatten(Tail(lists))

\* C15: drainPendingEvents(agentId) returns the agent's queued events in
\* queue order and leaves its queue empty, so that a second drain without an
\* emit in between returns the empty list; the queues of other agents are
\* unchanged; and every event queued for an agent is returned by exactly one
\* drain: the lists the drains returned, followed by what is still queued,
\* are the events queued for the agent, each once and in order.
C15_DrainReturnsAndClears ==
    /\ \A X \in BusAgents :
          LET after == drainPendingEvents(BusState, X)
              again == drainPendingEvents(after, X)
          IN  /\ after.returned = pendingEvents[X]
              /\ after.pendingEvents[X] = <<>>
              /\ \A Y \in BusAgents \ {X} : after.pendingEvents[Y] = pendingEvents[Y]
              /\ again.returned = <<>>
              /\ again.pendingEvents = after.pendingEvents
    /\ \A X \in BusAgents : Flatten(drained[X]) \o pendingEvents[X] = queued[X]

\* Agent a drained one event, then a second one queued later, while two
\* events are still queued for b.
C15_Witness ==
    /\ Len(drained["a"]) = 2
    /\ Len(drained["a"][1]) = 1
    /\ Len(drained["a"][2]) = 1
    /\ drained["a"][1] # drained["a"][2]
    /\ pendingEvents["a"] = <<>>
    /\ Len(pendingEvents["b"]) = 2
    /\ drained["b"] = <<>>

\* Agent a drained twice in a row: the second drain returned nothing.
C15_WitnessAgain ==
    /\ Len(drained["a"]) = 2
    /\ Len(drained["a"][1]) = 2
    /\ drained["a"][2] = <<>>
    /\ queued["a"] = drained["a"][1]

\* C16: if the dispose function returned by preSubscribe is called before
\* any matching event was emitted, then whatever is emitted later the promise
\* is not resolved and no event is queued on behalf of the pre-subscription:
\* neither its direct handler nor its one-shot subscription is registered.
C16_DisposedEarlyStaysSilent ==
    (seen # <<>> /\ seen[1] = DisposeMark)
    => /\ pre.state = "disposed"
       /\ pre.promise = <<>>
       /\ shots[pre.id] = <<>>
       /\ pendingEvents[pre.agentId] = <<>>
       /\ HandlerKey(pre.id) \notin Keys(handlers)
       /\ pre.id \notin Ids(subscriptions)
       /\ \A type \in {"AGENT_COMPLETED", "TASK_COMPLETED"}, agentId \in {"a", "b"} :
             LET after == emit(BusState, type, agentId)
             IN  /\ after.pre.promise = <<>>
                 /\ after.pendingEvents = pendingEvents

\* dispose was called first, and two matching events were emitted after it.
C16_Witness ==
    /\ Len(seen) = 3
    /\ seen[1] = DisposeMark
    /\ seen[2].type = "TASK_COMPLETED"
    /\ seen[3].type = "AGENT_COMPLETED"
    /\ pre.promise = <<>>
    /\ pendingEvents["a"] = <<>>

\* C17: for a preSubscribe that is not disposed, once a matching event has
\* been emitted the promise is resolved with the first such event, the
\* one-shot subscription has queued that same event, once, for the agent,
\* and neither the direct handler nor the subscription is registered; for
\* every sequence of emits, emits made by other direct handlers included.
C17_PromiseAndQueueGetFirstMatch ==
    (pre.state = "active" /\ seen # <<>>)
    => /\ pre.promise = <<seen[1]>>
       /\ pendingEvents[pre.agentId] = <<seen[1]>>
       /\ HandlerKey(pre.id) \notin Keys(handlers)
       /\ pre.id \notin Ids(subscriptions)

\* C17, the part that fails independently of which event counts as first:
\* the promise and the agent's queue hold the same event.
C17_PromiseAndQueueAgree ==
    (pre.state = "active" /\ pre.promise # <<>>)
    => pendingEvents[pre.agentId] = pre.promise

\* ------------------------------------------- claims: the HTTP session store

\* The notifications of session x that were written to a transport, in the
\* order of the writes.
Written(log, x) ==
    LET own == SelectSeq(log, LAMBDA w : /\ w.ok
                                         /\ w.payload.params.sessionId = x
                                         /\ w.payload.params.seq > 0)
    IN  [k \in DOMAIN own |-> own[k].payload.params]

\* No write for session x has failed.
NoWriteFailed(log, x) ==
    \A k \in DOMAIN log : log[k].payload.params.sessionId = x => log[k].ok

\* C18: for a session on which no transport write has failed, through any
\* interleaving of pushNotification, attachSse and detachSse the
\* notifications written to transports are the notifications pushed for it,
\* in call order, none missing, repeated or reordered, followed only by those
\* still buffered; and an attach leaves every notification pushed before it
\* written.
C18_DeliveredInCallOrder ==
    \A x \in SessionIds :
        NoWriteFailed(wire, x)
        => /\ Written(wire, x) \o pendingNotifications[x] = pushed[x]
           /\ sseControllers[x] # <<>> => Written(wire, x) = pushed[x]
           /\ \A controller \in Controllers \ closed :
                 LET after == attachSse(PipeState, x, controller)
                 IN  /\ Written(after.wire, x) = pushed[x]
                     /\ after.pushed = pushed

\* Session x had one notification written while attached to one stream and
\* a second one, buffered while detached, flushed by the attach of another.
C18_Witness ==
    /\ Len(pushed["x"]) = 2
    /\ Len(wire) = 2
    /\ wire[1].by = "pushNotification"
    /\ wire[2].by = "attachSse"
    /\ wire[1].to # wire[2].to
    /\ NoWriteFailed(wire, "x")
    /\ Written(wire, "x") = pushed["x"]

\* The writes that flush a buffer to a controller, in buffer order.
FlushWrites(pending, controller) ==
    [k \in DOMAIN pending |->
        [to |-> controller, payload |-> UpdatePayload(pending[k]),
         ok |-> controller \notin closed, by |-> "attachSse"]]

\* C19: attachSse writes all notifications buffered for the session to the
\* new transport, in push order, and clears the buffer; a notification
\* pushed while a transport is attached is written to it at once and not
\* buffered; and no notification is written twice, whatever attach, detach
\* and re-attach cycles there are and also when writes fail.
C19_FlushOnAttachNoDuplicates ==
    /\ \A x \in SessionIds, controller \in Controllers :
          LET after == attachSse(PipeState, x, controller)
          IN  /\ after.wire = wire \o FlushWrites(pendingNotifications[x], controller)
              /\ after.pendingNotifications[x] = <<>>
              /\ after.sseControllers[x] = <<controller>>
              /\ \A y \in SessionIds \ {x} :
                    after.pendingNotifications[y] = pendingNotifications[y]
    /\ \A x \in SessionIds :
          sseControllers[x] # <<>>
          => LET n == Notification(x, Pushes + 1)
                 after == pushNotification(PipeState, n)
             IN  /\ after.wire
                    = Append(wire, [to |-> sseControllers[x][1],
                                    payload |-> UpdatePayload(n),
                                    ok |-> sseControllers[x][1] \notin closed,
                                    by |-> "pushNotification"])
                 /\ after.pendingNotifications = pendingNotifications
    /\ \A k, l \in DOMAIN wire :
          (k # l /\ wire[k].payload.params.seq > 0)
          => wire[k].payload.params # wire[l].payload.params
    /\ \A x \in SessionIds, k \in DOMAIN wire :
          \A l \in DOMAIN pendingNotifications[x] :
             wire[k].payload.params # pendingNotifications[x][l]

\* Two notifications buffered for x were flushed, in push order, by the
\* attach of its stream, while y's stream was attached and received nothing.
C19_Witness ==
    /\ Len(pushed["x"]) = 2
    /\ sseControllers["x"] # <<>>
    /\ pendingNotifications["x"] = <<>>
    /\ wire = FlushWrites(pushed["x"], sseControllers["x"][1])
    /\ sseControllers["y"] # <<>>
    /\ closed = {}

\* C20: after detachSse(sessionId) every pushNotification for the session is
\* appended to its buffer and written to no transport, until the next
\* attachSse for the session; detachSse itself changes neither the buffers
\* nor the session records (nor what has been written).
C20_DetachedSessionBuffers ==
    \A x \in SessionIds :
        LET detached == detachSse(PipeState, x)
            n == Notification(x, Pushes + 1)
            m == Notification(x, Pushes + 2)
            once == pushNotification(detached, n)
            twice == pushNotification(once, m)
        IN  /\ detached.sseControllers[x] = <<>>
            /\ detached.pendingNotifications = pendingNotifications
            /\ detached.sessions = sessions
            /\ detached.wire = wire
            /\ \A y \in SessionIds \ {x} :
                  detached.sseControllers[y] = sseControllers[y]
            /\ once.pendingNotifications[x] = Append(pendingNotifications[x], n)
            /\ once.wire = wire
            /\ once.sseControllers[x] = <<>>
            /\ twice.pendingNotifications[x]
               = pendingNotifications[x] \o <<n, m>>
            /\ twice.wire = wire
            /\ sseControllers[x] = <<>>
               => \A y \in SessionIds \ {x}, record \in SessionRecordInputs :
                     /\ detachSse(PipeState, y).sseControllers[x] = <<>>
                     /\ pushNotification(PipeState, Notification(y, Pushes + 1))
                           .sseControllers[x] = <<>>
                     /\ upsertSession(PipeState, record).sseControllers[x] = <<>>

\* Session x, known to the store, was attached (its first notification was
\* written on push), has been detached, and its second notification is in
\* the buffer.
C20_Witness ==
    /\ sessions["x"] # <<>>
    /\ sseControllers["x"] = <<>>
    /\ Len(wire) = 1
    /\ wire[1].by = "pushNotification"
    /\ wire[1].payload.params = Notification("x", 1)
    /\ pendingNotifications["x"] = <<Notification("x", 2)>>

\* C21: pushConnected(sessionId) writes one synthetic liveness message to
\* the transport attached for the session at the call; with no transport
\* attached it changes nothing: the buffer is unchanged, and a later attach
\* delivers no 'connected' message.
C21_ConnectedOnlyWhenAttached ==
    /\ \A x \in SessionIds :
          LET after == pushConnected(PipeState, x)
          IN  IF sseControllers[x] # <<>>
              THEN /\ after.wire
                      = Append(wire, [to |-> sseControllers[x][1],
                                      payload |-> UpdatePayload(ConnectedParams(x)),
                                      ok |-> sseControllers[x][1] \notin closed,
                                      by |-> "pushConnected"])
                   /\ after.pendingNotifications = pendingNotifications
                   /\ after.sseControllers = sseControllers
                   /\ after.sessions = sessions
                   /\ after.pushed = pushed
              ELSE /\ after = PipeState
                   /\ \A controller \in Controllers :
                         attachSse(after, x, controller).wire
                         = wire \o FlushWrites(pendingNotifications[x], controller)
    /\ \A k \in DOMAIN wire :
          wire[k].payload.params.seq = 0 <=> wire[k].by = "pushConnected"
    /\ \A x \in SessionIds : \A l \in DOMAIN pendingNotifications[x] :
          pendingNotifications[x][l].seq > 0

\* One liveness message was written while a stream was attached; the session
\* was then detached, a notification was buffered, and the next attach
\* delivered that notification and no liveness message.
C21_Witness ==
    /\ Len(wire) = 2
    /\ wire[1].by = "pushConnected"
    /\ wire[1].payload = UpdatePayload(ConnectedParams("x"))
    /\ wire[2].by = "attachSse"
    /\ wire[2].payload = UpdatePayload(Notification("x", 1))
    /\ pendingNotifications["x"] = <<>>


\* The params of the writes that failed (enqueue threw).
Lost == {wire[k].payload.params : k \in {j \in DOMAIN wire : ~wire[j].ok}}

\* C22: a write that fails on an attached transport is swallowed and the
\* notification is not rebuffered: pushNotification and attachSse return
\* normally, the store is as after a successful write (nothing put into or
\* kept in the buffer), and an attach of a live controller afterwards
\* delivers none of the failed notifications; no notification whose write
\* failed is in a buffer or is written successfully.
C22_FailedWriteIsLost ==
    /\ \A x \in SessionIds :
          (sseControllers[x] # <<>> /\ sseControllers[x][1] \in closed) =>
              LET n == Notification(x, Pushes + 1)
                  after == pushNotification(PipeState, n)
              IN  /\ ~after.thrown
                  /\ after.pendingNotifications = pendingNotifications
                  /\ after.sseControllers = sseControllers
                  /\ after.wire = Append(wire, [to |-> sseControllers[x][1],
                         payload |-> UpdatePayload(n), ok |-> FALSE,
                         by |-> "pushNotification"])
                  /\ \A controller \in Controllers :
                        attachSse(after, x, controller).wire
                        = after.wire \o FlushWrites(pendingNotifications[x], controller)
    /\ \A x \in SessionIds : \A controller \in closed :
          pendingNotifications[x] # <<>> =>
              LET after == attachSse(PipeState, x, controller)
              IN  /\ ~after.thrown
                  /\ after.pendingNotifications[x] = <<>>
                  /\ after.sseControllers[x] = <<controller>>
                  /\ Len(after.wire) = Len(wire) + Len(pendingNotifications[x])
                  /\ \A k \in (DOMAIN after.wire) \ DOMAIN wire : ~after.wire[k].ok
                  /\ \A other \in Controllers :
                        attachSse(detachSse(after, x), x, other).wire = after.wire
    /\ \A n \in Lost :
          /\ \A x \in SessionIds : \A l \in DOMAIN pendingNotifications[x] :
                pendingNotifications[x][l] # n
          /\ \A k \in DOMAIN wire : wire[k].ok => wire[k].payload.params # n

\* The buffered first notification is flushed to a closed stream and lost;
\* the session is attached again to a live controller, which gets only the
\* second one.
C22_Witness ==
    /\ Len(wire) = 2
    /\ wire[1] = [to |-> "t1", payload |-> UpdatePayload(Notification("x", 1)),
                  ok |-> FALSE, by |-> "attachSse"]
    /\ wire[2] = [to |-> "t2", payload |-> UpdatePayload(Notification("x", 2)),
                  ok |-> TRUE, by |-> "pushNotification"]
    /\ sseControllers["x"] = <<"t2">>
    /\ pendingNotifications["x"] = <<>>


\* C23 as stated: for every agent, the events in its pending queue (which
\* drainPendingEvents returns as it is) are in the order in which the emit
\* calls were made, emit calls made inside a direct handler included. The
\* timestamp of an event is the number of its emit call.
C23_QueuedInEmitOrder ==
    /\ \A X \in BusAgents :
          \A k \in 1..(Len(pendingEvents[X]) - 1) :
              pendingEvents[X][k].timestamp <= pendingEvents[X][k + 1].timestamp
    /\ \A X \in BusAgents :
          drainPendingEvents(BusState, X).returned = pendingEvents[X]


\* The store after save(task) and after save(task); save(task).
SavedOnce(task) == SaveStore(tasks, task)
SavedTwice(task) == SaveStore(SavedOnce(task), task)

\* C24 as stated: save is idempotent, calling save(task) twice in a row
\* with the same task leaves the store as calling it once does.
C24_SaveIsIdempotent ==
    \A task \in TaskInputs : SavedTwice(task) = SavedOnce(task)

\* C24, amended: saving the same task a second time replaces the mutable
\* fields by the same values and leaves every other task alone, but it is a
\* write: the stored version of the task is one higher than after the first
\* save.
C24_SecondSaveOnlyAdvancesVersion ==
    \A task \in TaskInputs :
        LET once == SavedOnce(task)
            twice == SavedTwice(task)
        IN  /\ DOMAIN twice = DOMAIN once
            /\ \A i \in DOMAIN once : i # task.id => twice[i] = once[i]
            /\ twice[task.id] = [once[task.id] EXCEPT !.version = @ + 1]
            /\ twice[task.id].status = task.status
            /\ twice[task.id].dependencies = task.dependencies

\* Task A is stored as two save calls of the same task without a version
\* leave it, at version 2, next to task B; a third save takes it to 3.
C24_Witness ==
    /\ ret = RetVoid
    /\ DOMAIN tasks = {"A", "B"}
    /\ tasks["A"] = [status |-> "PENDING", dependencies |-> <<>>,
                     workspaceId |-> "w1", version |-> 2]
    /\ SavedOnce([id |-> "A", status |-> "PENDING", dependencies |-> <<>>,
                  workspaceId |-> "w1", version |-> <<>>])["A"].version = 3


\* A stored row with the columns the model of the store leaves out, as
\* save() wrote them.
FullRow(taskId, row) ==
    [title |-> taskId, objective |-> "objective", assignedTo |-> "agent-1",
     status |-> row.status, dependencies |-> row.dependencies,
     workspaceId |-> row.workspaceId, completionSummary |-> "",
     verificationVerdict |-> "", verificationReport |-> "",
     version |-> row.version, createdAt |-> "earlier", updatedAt |-> "earlier"]

FullStore == [i \in DOMAIN tasks |-> FullRow(i, tasks[i])]

\* C25: a successful atomicUpdate changes only the task's version, its
\* timestamp and the fields present in the partial update (status,
\* completionSummary, verificationVerdict, verificationReport, assignedTo);
\* the task's dependencies, workspaceId, title and every other task are left
\* unchanged.
C25_AtomicUpdateFrame ==
    LET before == FullStore
    IN  \A taskId \in DOMAIN tasks : \A u \in PartialUpdateInputs :
            LET v == tasks[taskId].version
                after == AtomicUpdateStore(before, taskId, v, u)
                row == after[taskId]
            IN  /\ AtomicUpdateResult(before, taskId, v) = RetTrue
                /\ DOMAIN after = DOMAIN before
                /\ \A i \in DOMAIN before : i # taskId => after[i] = before[i]
                /\ \A f \in DOMAIN before[taskId] :
                      row[f] # before[taskId][f]
                      => f \in {"version", "updatedAt"} \cup DOMAIN u
                /\ DOMAIN u \subseteq UpdateKeys
                /\ \A f \in DOMAIN u : row[f] = u[f]
                /\ row.version = v + 1
                /\ row.updatedAt = Now
                /\ row.dependencies = tasks[taskId].dependencies
                /\ row.workspaceId = tasks[taskId].workspaceId
                /\ row.title = before[taskId].title

\* atomicUpdate(B, 1, {status: IN_PROGRESS}) has succeeded on task B, which
\* depends on A; A is stored at the same version 1 and was not touched.
C25_Witness ==
    /\ ret = RetTrue
    /\ DOMAIN tasks = {"A", "B"}
    /\ tasks["B"] = [status |-> "IN_PROGRESS", dependencies |-> <<"A">>,
                     workspaceId |-> "w2", version |-> 2]
    /\ tasks["A"] = [status |-> "PENDING", dependencies |-> <<>>,
                     workspaceId |-> "w1", version |-> 1]


\* C26: updateStatus(taskId, status) is an unconditional write: for an
\* existing task it sets the status and increments the version whatever the
\* current version and status are, and touches nothing else; an atomicUpdate
\* that uses the version read before the updateStatus then returns false and
\* changes nothing. For an id without a record it writes nothing.
C26_UpdateStatusIsUnconditional ==
    /\ \A taskId \in DOMAIN tasks, status \in StatusInputs :
          LET read == tasks[taskId].version
              after == UpdateStatusStore(tasks, taskId, status)
          IN  /\ after = [tasks EXCEPT ![taskId] =
                             [tasks[taskId] EXCEPT !.status = status,
                                                   !.version = read + 1]]
              /\ \A u \in UpdateInputs \cup PartialUpdateInputs :
                    /\ AtomicUpdateResult(after, taskId, read) = RetFalse
                    /\ AtomicUpdateStore(after, taskId, read, u) = after
    /\ \A taskId \in TaskIds \ DOMAIN tasks, status \in StatusInputs :
          UpdateStatusStore(tasks, taskId, status) = tasks

\* Task A is stored as PENDING at version 3, as updateStatus(A, PENDING)
\* leaves a task read at version 2, and an atomicUpdate has just returned
\* false; one with the version 2 read before returns false as well.
C26_Witness ==
    /\ ret = RetFalse
    /\ "A" \in DOMAIN tasks
    /\ tasks["A"].status = "PENDING"
    /\ tasks["A"].version = 3
    /\ AtomicUpdateResult(tasks, "A", 2) = RetFalse


\* C27: addToWaitGroup(groupId, agentId) is a no-op when agentId is already
\* expected by the group (expectedAgentIds and completedAgentIds unchanged,
\* so the number of completions needed to fire does not grow) and when the
\* group does not exist; otherwise it appends the id to expectedAgentIds.
C27_AddToWaitGroupNoOp ==
    \A groupId \in GroupIds, agentId \in BusAgents :
        LET after == addToWaitGroup(BusState, groupId, agentId)
            group == getWaitGroup(BusState, groupId)
        IN  IF group = <<>> \/ agentId \in Range(group[1].expectedAgentIds)
            THEN after = BusState
            ELSE getWaitGroup(after, groupId)[1] =
                     [group[1] EXCEPT !.expectedAgentIds = Append(@, agentId)]

\* Group g1 was created for c, agent a was added and has completed; adding
\* a or c again changes nothing, and there is no group g2 to add to.
C27_Witness ==
    /\ getWaitGroup(BusState, "g1") # <<>>
    /\ getWaitGroup(BusState, "g1")[1].expectedAgentIds = <<"c", "a">>
    /\ getWaitGroup(BusState, "g1")[1].completedAgentIds = {"a"}
    /\ getWaitGroup(BusState, "g2") = <<>>
    /\ addToWaitGroup(BusState, "g1", "a") = BusState
    /\ addToWaitGroup(BusState, "g2", "a") = BusState


\* ---------------------------------------------- claims: the system factory

\* C28 as stated: when DATABASE_URL is not set, getRoutaSystem initialises
\* and returns an in-memory system (isPersistent = false) without failing,
\* for every combination of ROUTA_DB_DRIVER, VERCEL and
\* AWS_LAMBDA_FUNCTION_NAME; when DATABASE_URL is set it returns a
\* Postgres-backed system; repeated calls return the first instance.
C28_SystemFollowsDatabaseUrl ==
    LET after == getRoutaSystem(BootState)
    IN  /\ (system = <<>> /\ env["DATABASE_URL"] = <<>>)
              => /\ ~after.threw
                 /\ after.value # <<>> /\ ~after.value[1].isPersistent
        /\ (system = <<>> /\ env["DATABASE_URL"] # <<>>)
              => /\ ~after.threw
                 /\ after.value # <<>> /\ after.value[1].isPersistent
        /\ system # <<>> => ~after.threw /\ after.value = system


\* ------------------------------------------ claims: the EventBus, continued

\* C29 as stated: for every wait group, whatever its list of expected agent
\* ids (repeated ids included), once every distinct expected agent has
\* emitted AGENT_COMPLETED or REPORT_SUBMITTED after the group was created,
\* onComplete has been invoked and the group has been deleted: no group in
\* the map has all its distinct expected agents among completedAgentIds.
C29_CompleteGroupHasFired ==
    \A i \in DOMAIN waitGroups :
        ~(Range(waitGroups[i].expectedAgentIds) \subseteq waitGroups[i].completedAgentIds)


\* C30: if a wait group's onComplete callback throws, the enclosing emit
\* still returns normally, the group is still deleted, so that the callback
\* cannot fire again, and the remaining wait groups that contain the
\* completing agent are still updated and fired. For every completion
\* signal, every group that expects the agent is treated the same whether
\* or not a callback throws in that emit.
C30_ThrowingOnCompleteIsContained ==
    \A type \in {"AGENT_COMPLETED", "REPORT_SUBMITTED"}, agentId \in BusAgents :
        LET after == emit(BusState, type, agentId)
        IN  /\ ~after.thrown
            /\ \A i \in DOMAIN waitGroups :
                  LET group == waitGroups[i]
                      done == group.completedAgentIds \cup {agentId}
                  IN  agentId \in Range(group.expectedAgentIds) =>
                          IF Cardinality(done) >= Len(group.expectedAgentIds)
                          THEN /\ after.fired[group.id] = <<done>>
                               /\ getWaitGroup(after, group.id) = <<>>
                               /\ \A again \in {"AGENT_COMPLETED", "REPORT_SUBMITTED"} :
                                     emit(after, again, agentId).fired[group.id] = <<done>>
                          ELSE /\ after.fired[group.id] = <<>>
                               /\ getWaitGroup(after, group.id) =
                                     <<[group EXCEPT !.completedAgentIds = done]>>

\* Group g1, whose callback throws, was created before g2, whose callback
\* returns; both wait for c only, and one completion signal of c invokes
\* both callbacks and deletes both groups.
C30_Witness ==
    /\ Len(waitGroups) = 2
    /\ waitGroups[1].id = "g1" /\ waitGroups[1].onComplete = "throws"
    /\ waitGroups[2].id = "g2" /\ waitGroups[2].onComplete = "returns"
    /\ waitGroups[1].expectedAgentIds = <<"c">>
    /\ waitGroups[2].expectedAgentIds = <<"c">>
    /\ emit(BusState, "AGENT_COMPLETED", "c").fired = [g1 |-> <<{"c"}>>, g2 |-> <<{"c"}>>]
    /\ emit(BusState, "AGENT_COMPLETED", "c").waitGroups = <<>>
    /\ ~emit(BusState, "AGENT_COMPLETED", "c").thrown


\* C31: only events of type AGENT_COMPLETED or REPORT_SUBMITTED advance wait
\* groups, and only groups whose expectedAgentIds contain the event's
\* agentId: an emit of any other type, or from an agent that is not
\* expected, leaves a wait group as it is and fires no onComplete.
C31_OnlyExpectedCompletionsAdvance ==
    \A type \in AgentEventType, agentId \in BusAgents :
        LET after == emit(BusState, type, agentId)
        IN  \A i \in DOMAIN waitGroups :
               LET group == waitGroups[i]
               IN  (type \notin {"AGENT_COMPLETED", "REPORT_SUBMITTED"}
                    \/ agentId \notin Range(group.expectedAgentIds))
                   => /\ getWaitGroup(after, group.id) = <<group>>
                      /\ after.fired[group.id] = fired[group.id]

\* Three emit calls were made since group g1 was created for a and b, and
\* only a has completed; a TASK_COMPLETED or AGENT_ERROR event of b and a
\* completion of c leave the group as it is, a completion of b fires it.
C31_Witness ==
    /\ clock = 3
    /\ getWaitGroup(BusState, "g1") # <<>>
    /\ getWaitGroup(BusState, "g1")[1].expectedAgentIds = <<"a", "b">>
    /\ getWaitGroup(BusState, "g1")[1].completedAgentIds = {"a"}
    /\ fired["g1"] = <<>>
    /\ emit(BusState, "TASK_COMPLETED", "b").waitGroups = waitGroups
    /\ emit(BusState, "AGENT_ERROR", "b").waitGroups = waitGroups
    /\ emit(BusState, "AGENT_COMPLETED", "c").waitGroups = waitGroups
    /\ emit(BusState, "REPORT_SUBMITTED", "b").fired["g1"] = <<{"a", "b"}>>


\* C32 as stated: the promise of preSubscribe never resolves after dispose
\* has been called, and calling dispose after the promise has resolved is a
\* no-op that leaves the bus's handlers, subscriptions and pending queues
\* unchanged, whatever subscribe calls happened in between.
C32_DisposeIsRaceFree ==
    /\ pre.state = "disposed" =>
          \A type \in {"AGENT_COMPLETED", "TASK_COMPLETED"}, agentId \in {"a", "b"} :
              emit(BusState, type, agentId).pre.promise = pre.promise
    /\ (pre.state = "active" /\ pre.promise # <<>>) =>
          /\ dispose(BusState).handlers = handlers
          /\ dispose(BusState).subscriptions = subscriptions
          /\ dispose(BusState).pendingEvents = pendingEvents


\* C33: the two registrations made by preSubscribe use the same filter, for
\* every excludeSelf setting (omitted, true, false; omitted means true) and
\* every event: the direct handler resolves the promise on an event if and
\* only if the registered one-shot subscription matches that event.
C33_HandlerAndSubscriptionFilterAlike ==
    \A params \in PreSubscribeInputs :
        LET B == preSubscribe(BusState, params)
            sub == B.subscriptions[Position(B.subscriptions, params.id)]
        IN  /\ sub.oneShot
            /\ sub.excludeSelf = (params.excludeSelf # <<FALSE>>)
            /\ \A type \in AgentEventType, agentId \in BusAgents :
                  LET event == [type |-> type, agentId |-> agentId,
                                timestamp |-> clock + 1]
                  IN  (PreHandler(B, event).pre.promise = <<event>>)
                      <=> Matches(sub, event)

\* preSubscribe was called for agent a with excludeSelf omitted; an event
\* that does not pass the filter (a's own, or of another type) has been
\* emitted and neither registration took it: the promise is unresolved, the
\* queue empty, both are still registered; an AGENT_COMPLETED event of b
\* would be taken by both.
C33_Witness ==
    /\ pre.state = "active"
    /\ pre.excludeSelf = <<>>
    /\ clock = 1
    /\ seen = <<>>
    /\ pre.promise = <<>>
    /\ pendingEvents["a"] = <<>>
    /\ HandlerKey(pre.id) \in Keys(handlers)
    /\ pre.id \in Ids(subscriptions)
    /\ emit(BusState, "AGENT_COMPLETED", "b").pre.promise
       = emit(BusState, "AGENT_COMPLETED", "b").pendingEvents["a"]


\* C34: in every state reached through attachSse, detachSse,
\* pushNotification and pushConnected, a session that has a transport
\* attached has an empty pending-notification buffer; each of the four calls
\* keeps it so, also when the attached stream is closed and writes fail.
C34_AttachedSessionHasEmptyBuffer ==
    /\ \A x \in SessionIds :
          sseControllers[x] # <<>> => pendingNotifications[x] = <<>>
    /\ \A x \in SessionIds, controller \in Controllers :
          LET attached == attachSse(PipeState, x, controller)
              pushedTo == pushNotification(attached, Notification(x, Pushes + 1))
              connected == pushConnected(pushedTo, x)
          IN  /\ attached.pendingNotifications[x] = <<>>
              /\ pushedTo.pendingNotifications[x] = <<>>
              /\ connected.pendingNotifications[x] = <<>>
              /\ connected.sseControllers[x] = <<controller>>

\* Two notifications were buffered for x and its stream t1 was closed by
\* the client; t1 was then attached: both writes failed, the buffer is empty
\* and t1 is attached.
C34_Witness ==
    /\ sseControllers["x"] = <<"t1">>
    /\ "t1" \in closed
    /\ Len(wire) = 2
    /\ \A k \in DOMAIN wire : wire[k].by = "attachSse" /\ ~wire[k].ok
    /\ pendingNotifications["x"] = <<>>
    /\ Len(pushed["x"]) = 2


\* ------------------------------------------------- claims: the SSE route

\* The streams opened for session x, in connect order.
StreamsOf(x) == SelectSeq(streams, LAMBDA s : s.sessionId = x)

\* C35: when a later stream was attached for a session and the request of an
\* earlier stream of the session aborts, the later stream stays attached: as
\* long as the request of the latest stream of a session is not aborted, its
\* controller is the attached one, and a notification pushed then is written
\* to it and not buffered.
C35_LaterStreamStaysAttached ==
    \A x \in SessionIds :
        LET mine == StreamsOf(x)
        IN  (Len(mine) >= 2 /\ mine[Len(mine)].controller \notin closed) =>
                LET latest == mine[Len(mine)].controller
                    n == Notification(x, Pushes + 1)
                    after == pushNotification(PipeState, n)
                IN  /\ sseControllers[x] = <<latest>>
                    /\ after.pendingNotifications[x] = pendingNotifications[x]
                    /\ after.wire = Append(wire, [to |-> latest,
                                                  payload |-> UpdatePayload(n),
                                                  ok |-> TRUE,
                                                  by |-> "pushNotification"])


\* What was handed to a controller, in order.
WireTo(controller) == SelectSeq(wire, LAMBDA w : w.to = controller)

\* The "SSE connected." message as pushConnected hands it to a controller.
ConnectedWrite(x, controller) ==
    [to |-> controller, payload |-> UpdatePayload(ConnectedParams(x)),
     ok |-> controller \notin closed, by |-> "pushConnected"]

\* C36: on every SSE connect, the notifications buffered for the session are
\* written to the new stream in push order, then the "SSE connected." message
\* is written, once; of what a stream has received, the buffered notifications
\* come first, the one "SSE connected." message next, and later pushes after it.
C36_BufferedBeforeConnected ==
    /\ \A x \in SessionIds, controller \in StreamControllers \ (Opened \cup closed) :
          LET after == start(PipeState, x, controller)
          IN  /\ after.wire = wire \o FlushWrites(pendingNotifications[x], controller)
                                   \o <<ConnectedWrite(x, controller)>>
              /\ after.pendingNotifications[x] = <<>>
              /\ after.sseControllers[x] = <<controller>>
    /\ \A k \in DOMAIN streams :
          LET got == WireTo(streams[k].controller)
              flushed == Cardinality({j \in DOMAIN got : got[j].by = "attachSse"})
          IN  /\ Len(got) > flushed
              /\ \A j \in DOMAIN got :
                    /\ got[j].by = "attachSse" <=> j <= flushed
                    /\ got[j].payload.params.seq = 0 <=> j = flushed + 1
                    /\ got[j].payload.params.sessionId = streams[k].sessionId

\* Two notifications were buffered for a session, a stream then connected
\* and received both, in push order, and then its "SSE connected." message.
C36_Witness ==
    \E k \in DOMAIN streams :
        LET got == WireTo(streams[k].controller)
        IN  /\ Len(got) >= 3
            /\ got[1].by = "attachSse" /\ got[1].payload.params.seq = 1
            /\ got[2].by = "attachSse" /\ got[2].payload.params.seq = 2
            /\ got[3].by = "pushConnected" /\ got[3].payload.params.seq = 0


\* ------------------------------------- claims: the EventBus, re-entrant

\* C37: if the onComplete callback of a wait group itself emits
\* AGENT_COMPLETED for an agent expected by that group, the callback is not
\* invoked a second time for the group, and the outer emit returns normally.
C37_EmittingCallbackFiresOnce ==
    \A i \in DOMAIN waitGroups :
        LET group == waitGroups[i]
        IN  group.onComplete = "emits" =>
                \A type \in {"AGENT_COMPLETED", "REPORT_SUBMITTED"},
                   agentId \in Range(group.expectedAgentIds) :
                    LET after == emit(BusState, type, agentId)
                    IN  /\ Len(after.fired[group.id]) <= 1
                        /\ ~after.thrown


\* ------------------------------------- claims: the task store, continued

\* The sets of stored tasks each of which depends on a task of the set: the
\* tasks of a dependency cycle (a task that depends on itself is one).
Cyclic(store) ==
    {C \in SUBSET DOMAIN store :
        /\ C # {}
        /\ \A i \in C : Range(store[i].dependencies) \cap C # {}}

\* C38: a task whose dependencies contain its own id is never returned by
\* findReadyTasks, now or after any further status update; and while all
\* tasks on a dependency cycle are PENDING none of them is returned.
C38_CyclesAreNeverReady ==
    /\ \A i \in DOMAIN tasks, w \in WorkspaceIds :
          i \in Range(tasks[i].dependencies) =>
              /\ i \notin findReadyTasks(tasks, w)
              /\ \A taskId \in TaskIds, status \in StatusInputs :
                    i \notin findReadyTasks(UpdateStatusStore(tasks, taskId, status), w)
    /\ \A C \in Cyclic(tasks), w \in WorkspaceIds :
          (\A i \in C : tasks[i].status = "PENDING")
          => C \cap findReadyTasks(tasks, w) = {}

\* A and B depend on each other and both are PENDING in one workspace:
\* neither is ready.
C38_Witness ==
    /\ DOMAIN tasks = {"A", "B"}
    /\ tasks["A"].dependencies = <<"B">> /\ tasks["B"].dependencies = <<"A">>
    /\ tasks["A"].status = "PENDING" /\ tasks["B"].status = "PENDING"
    /\ tasks["A"].workspaceId = tasks["B"].workspaceId
    /\ findReadyTasks(tasks, tasks["A"].workspaceId) = {}


\* C39: updateStatus and atomicUpdate on a task id that has no record create
\* no record and change no stored task, and atomicUpdate returns false then,
\* for every expectedVersion.
C39_MissingIdIsLeftMissing ==
    \A taskId \in TaskIds \ DOMAIN tasks :
        /\ \A status \in StatusInputs :
              UpdateStatusStore(tasks, taskId, status) = tasks
        /\ \A expectedVersion \in 0..(MaxVersion + 1), updates \in PartialUpdateInputs :
              /\ AtomicUpdateStore(tasks, taskId, expectedVersion, updates) = tasks
              /\ AtomicUpdateResult(tasks, taskId, expectedVersion) = RetFalse

\* atomicUpdate has returned false on a store that holds no record: the id
\* it was called with had none, and none was created.
C39_Witness ==
    /\ DOMAIN tasks = {}
    /\ ret = RetFalse

====
